---- MODULE Spec2Model ----
(***************************************************************************)
(* Model of the Bitwarden Decky plugin backend:                            *)
(*   py_modules/bitwarden_backend.py  (class BitwardenCLI, the facade)     *)
(*   py_modules/bitwarden_cli.py      (get_bw_path / run_bw)               *)
(*   tests/test_bitwarden_backend.py  (SubprocessMocker, the mock client)  *)
(*                                                                         *)
(* A Python str is a sequence of atoms (short TLA+ strings standing for    *)
(* runs of characters); str.lower, str.strip, `in` and `+` are computed    *)
(* on these sequences.  Python's None is the record None, a present value  *)
(* v is Some(v).                                                           *)
(***************************************************************************)
EXTENDS Integers, Sequences, FiniteSets, TLC

VARIABLES
    session_key,     \* BitwardenCLI._session_key
    environ,         \* os.environ of the plugin process
    plugin_dir,      \* bitwarden_cli._plugin_dir
    bw_path_cache,   \* bitwarden_cli._bw_path_cache
    fs,              \* the filesystem at the two candidate paths
    mock_state,      \* SubprocessMocker.state
    call,            \* the most recent call: operation name and arguments
    launches,        \* the subprocess invocations that call made, in order
    response,        \* the dict that call returned
    session_before,  \* _session_key when that call started
    unlock_tok,      \* token of the last storing unlock, until lock/logout/unlock
    flow,            \* steps of login, unlock, lock, logout done in a row
    observed_before, \* the status the mock reported when that call started
    clip_tools,      \* per clipboard tool, during that call: absent or how it ran
    resolved,        \* what the most recent get_bw_path call returned
    probes,          \* the paths that get_bw_path call tested with os.path.isfile
    threads,         \* per caller thread: where its unlock or lock call stands
    store_log,       \* the last assignment to _session_key, the tokens unlock returned
    last_unlock,     \* token of the last storing unlock no zero-exit lock/logout followed
    missed           \* whether a get_bw_path() call found nothing since the last reset

vars == <<session_key, environ, plugin_dir, bw_path_cache, fs, mock_state,
          call, launches, response, session_before, unlock_tok, flow,
          observed_before, clip_tools, resolved, probes, threads, store_log,
          last_unlock, missed>>

-----------------------------------------------------------------------------
(* Python values *)

None == [some |-> FALSE]
Some(v) == [some |-> TRUE, val |-> v]

\* truthiness of an optional str: None and "" are falsy
Truthy(o) == o.some /\ o.val # <<>>

-----------------------------------------------------------------------------
(* Bounds *)

\* number of distinct session tokens the vault client may print
NumTokens == 2
\* most whitespace atoms around a printed token
MaxPad == 1
\* number of threads that call into one BitwardenCLI instance
NumThreads == 3

-----------------------------------------------------------------------------
(* Strings *)

Whitespace == {" ", "\n"}

\* str.lower(), atom by atom
LowerAtom(a) ==
    CASE a = "You" -> "you"
      [] a = "Invalid" -> "invalid"
      [] a = "Username" -> "username"
      [] a = "Not" -> "not"
      [] a = "No" -> "no"
      [] a = "TOTP" -> "totp"
      [] a = "Vault" -> "vault"
      [] a = "Your" -> "your"
      [] a = "Unknown" -> "unknown"
      [] a = "Warning" -> "warning"
      [] a = "Two-step" -> "two-step"
      [] OTHER -> a

lower(s) == [i \in 1..Len(s) |-> LowerAtom(s[i])]

\* str.strip(): drop leading and trailing whitespace
RECURSIVE lstrip(_)
lstrip(s) == IF s # <<>> /\ Head(s) \in Whitespace THEN lstrip(Tail(s)) ELSE s

RECURSIVE rstrip(_)
rstrip(s) ==
    IF s # <<>> /\ s[Len(s)] \in Whitespace
    THEN rstrip(SubSeq(s, 1, Len(s) - 1))
    ELSE s

strip(s) == rstrip(lstrip(s))

\* Python's `pat in s` for str
Contains(pat, s) ==
    \E i \in 0..(Len(s) - Len(pat)) : SubSeq(s, i + 1, i + Len(pat)) = pat

\* the literals the backend searches for
P_invalid == <<"invalid">>
P_incorrect == <<"incorrect">>
P_already_logged_in == <<"already", " ", "logged in">>
P_not_logged_in == <<"not", " ", "logged in">>
P_already_unlocked == <<"already", " ", "un", "locked">>
P_locked == <<"locked">>
P_not_found == <<"not", " ", "found">>
P_no_totp == <<"no", " ", "totp">>

-----------------------------------------------------------------------------
(* json.loads on a str.  A JSON value is [t, v]: t the type, v its content.  *)
(* A key atom holds the quoted key and its colon.                           *)

JsonKeys == {"\"status\":", "\"userEmail\":", "\"id\":", "\"totp\":"}
JsonNumbers == {"123456"}
Quote == "\""

JFail == [ok |-> FALSE, val |-> [t |-> "null", v |-> <<>>], rest |-> <<>>]
JOk(val, rest) == [ok |-> TRUE, val |-> val, rest |-> rest]

\* index of the first closing quote at or after position i, 0 if none
RECURSIVE FindQuote(_, _)
FindQuote(s, i) ==
    IF i > Len(s) THEN 0
    ELSE IF s[i] = Quote THEN i
    ELSE FindQuote(s, i + 1)

RECURSIVE ParseValue(_)
RECURSIVE ParseMembers(_, _)
RECURSIVE ParseElements(_, _)

ParseMembers(s0, acc) ==
    LET s == lstrip(s0) IN
    IF s = <<>> \/ Head(s) \notin JsonKeys THEN JFail
    ELSE LET r == ParseValue(Tail(s)) IN
         IF ~r.ok THEN JFail
         ELSE LET rest == lstrip(r.rest)
                  acc2 == Append(acc, [k |-> Head(s), v |-> r.val])
              IN IF rest = <<>> THEN JFail
                 ELSE IF Head(rest) = "," THEN ParseMembers(Tail(rest), acc2)
                 ELSE IF Head(rest) = "}"
                      THEN JOk([t |-> "object", v |-> acc2], Tail(rest))
                 ELSE JFail

ParseElements(s0, acc) ==
    LET r == ParseValue(s0) IN
    IF ~r.ok THEN JFail
    ELSE LET rest == lstrip(r.rest)
             acc2 == Append(acc, r.val)
         IN IF rest = <<>> THEN JFail
            ELSE IF Head(rest) = "," THEN ParseElements(Tail(rest), acc2)
            ELSE IF Head(rest) = "]"
                 THEN JOk([t |-> "array", v |-> acc2], Tail(rest))
            ELSE JFail

ParseValue(s0) ==
    LET s == lstrip(s0) IN
    IF s = <<>> THEN JFail
    ELSE LET h == Head(s)
             t == lstrip(Tail(s))
         IN CASE h = "{" ->
                   IF t # <<>> /\ Head(t) = "}"
                   THEN JOk([t |-> "object", v |-> <<>>], Tail(t))
                   ELSE ParseMembers(t, <<>>)
              [] h = "[" ->
                   IF t # <<>> /\ Head(t) = "]"
                   THEN JOk([t |-> "array", v |-> <<>>], Tail(t))
                   ELSE ParseElements(t, <<>>)
              [] h = Quote ->
                   LET j == FindQuote(s, 2) IN
                   IF j = 0 THEN JFail
                   ELSE JOk([t |-> "string", v |-> SubSeq(s, 2, j - 1)],
                            SubSeq(s, j + 1, Len(s)))
              [] h \in JsonNumbers -> JOk([t |-> "number", v |-> <<h>>], Tail(s))
              [] h = "null" -> JOk([t |-> "null", v |-> <<>>], Tail(s))
              [] OTHER -> JFail

\* json.loads: [ok |-> FALSE] stands for JSONDecodeError
json_loads(s) ==
    LET r == ParseValue(s) IN
    IF r.ok /\ lstrip(r.rest) = <<>> THEN [ok |-> TRUE, val |-> r.val]
    ELSE [ok |-> FALSE, val |-> JFail.val]

\* d[key] / d.get(key) on a parsed object: Some(value) or None
JGet(d, key) ==
    IF d.t = "object" /\ \E i \in 1..Len(d.v) : d.v[i].k = key
    THEN Some(d.v[CHOOSE i \in 1..Len(d.v) : d.v[i].k = key].v)
    ELSE None

-----------------------------------------------------------------------------
(* What a subprocess.run call can come to: a CompletedProcess ("exit") or   *)
(* one of the exceptions it raises.                                         *)

Exit(rc, out, err) ==
    [kind |-> "exit", returncode |-> rc, stdout |-> out, stderr |-> err]
Raise(k) == [kind |-> k, returncode |-> 0, stdout |-> <<>>, stderr |-> <<>>]

TimeoutExpired == Raise("TimeoutExpired")
FileNotFoundError == Raise("FileNotFoundError")
PermissionError == Raise("PermissionError")

TokenNames == <<"sessA", "sessB", "sessC", "sessD">>
Tokens == {<<TokenNames[i]>> : i \in 1..NumTokens}

Pad(a, n) == [i \in 1..n |-> a]
\* tokens as the client prints them: bare, and the first one with blanks
\* before it and newlines after it
PaddedTokens ==
    Tokens \cup {Pad(" ", l) \o <<TokenNames[1]>> \o Pad("\n", r) :
                    l \in 0..MaxPad, r \in 0..MaxPad}
Blank == {Pad("\n", n) : n \in 0..MaxPad}

\* messages of the vault client (bw) and of the mock in tests/
M_invalid_password == <<"Invalid", " ", "master password.">>
M_incorrect == <<"Username", " ", "or password is", " ", "incorrect", ".">>
M_already_logged_in ==
    <<"You", " ", "are", " ", "already", " ", "logged in", " ",
      "as user@example.com.">>
M_not_logged_in == <<"You", " ", "are", " ", "not", " ", "logged in", ".">>
M_vault_locked == <<"Vault", " ", "is", " ", "locked", ".">>
M_already_unlocked == <<"Vault", " ", "is", " ", "already", " ", "un", "locked", ".">>
M_not_found == <<"Not", " ", "found", ".">>
M_no_totp == <<"No", " ", "TOTP", " ", "available for this item.">>
M_unknown_command == <<"Unknown", " ", "command">>
M_lock_ok == <<"Your", " ", "vault", " ", "is", " ", "locked", ".">>
M_logout_ok == <<"You", " ", "have logged out.">>
M_warning == <<"Warning", " ", "deprecated">>
M_no_provider == <<"No", " ", "provider selected", ".">>
M_two_step_invalid == <<"Two-step", " ", "login code is", " ", "invalid", ".">>

ErrorMessages ==
    {M_invalid_password, M_incorrect, M_already_logged_in, M_not_logged_in,
     M_vault_locked, M_already_unlocked, M_not_found, M_no_totp,
     M_unknown_command}

\* the messages also tried on stdout alone
StdoutMessages ==
    {M_invalid_password, M_already_logged_in, M_not_logged_in, M_vault_locked,
     M_no_totp}

JStr(s) == <<Quote>> \o s \o <<Quote>>
StatusJson(st, email) ==
    <<"{", "\"status\":">> \o JStr(st) \o <<",", " ", "\"userEmail\":">>
        \o email \o <<"}">>
MOCK_STATUS_UNAUTHENTICATED == StatusJson(<<"unauthenticated">>, <<"null">>)
MOCK_STATUS_LOCKED == StatusJson(<<"locked">>, JStr(<<"user@example.com">>))
MOCK_STATUS_UNLOCKED == StatusJson(<<"un", "locked">>, JStr(<<"user@example.com">>))

ItemJson(id, totp) ==
    <<"{", "\"id\":">> \o JStr(<<id>>)
        \o (IF totp = <<>> THEN <<>> ELSE <<",", " ", "\"totp\":">> \o JStr(totp))
        \o <<"}">>
ITEM_001 == ItemJson("item-001", <<"JBSWY3DPEHPK3PXP">>)
ITEM_002 == ItemJson("item-002", <<>>)
MOCK_VAULT_ITEMS == <<"[">> \o ITEM_001 \o <<",", " ">> \o ITEM_002 \o <<"]">>
MOCK_TOTP_CODE == <<"123456">>
MOCK_SESSION_KEY == <<TokenNames[1]>>

JsonTexts == {MOCK_STATUS_LOCKED, MOCK_VAULT_ITEMS, <<"{", "\"status\":">>}

\* stdout of a zero exit
ZeroStdouts ==
    PaddedTokens \cup Blank \cup JsonTexts
        \cup {M_lock_ok, MOCK_TOTP_CODE \o <<"\n">>}

\* the results of a vault-client (bw) invocation
Outcomes ==
    {Exit(0, out, <<>>) : out \in ZeroStdouts}
        \cup {Exit(0, MOCK_SESSION_KEY, M_warning)}
        \cup {Exit(1, <<>>, m) : m \in ErrorMessages}
        \cup {Exit(1, m, <<>>) : m \in StdoutMessages}
        \cup {Exit(1, M_not_logged_in, M_invalid_password),
              Exit(1, <<"logged in", ".">>, <<"You", " ", "are", " ", "not", " ">>)}
        \cup {TimeoutExpired, FileNotFoundError, PermissionError}

\* the same for the operations that do not trim stdout: a token or an empty
\* stdout comes without blanks around it
PlainOutcomes ==
    {o \in Outcomes :
        o.kind = "exit" /\ o.returncode = 0
            => o.stdout \notin (PaddedTokens \cup Blank) \ (Tokens \cup {<<>>})}

\* the results of a flatpak invocation (check_flatpak, check_bitwarden)
FlatpakOutcomes ==
    {Exit(0, <<"Flatpak 1.14.4", "\n">>, <<>>),
     Exit(1, <<>>, <<"error: com.bitwarden.desktop not installed">>),
     TimeoutExpired, FileNotFoundError, PermissionError}

-----------------------------------------------------------------------------
(* bitwarden_backend.py: class BitwardenCLI *)

FLATPAK_APP == "com.bitwarden.desktop"
TIMEOUT == 30
CLIP_TIMEOUT == 5

\* mutant: the error kind is dropped from the returned dict
_make_response_no_error(ok, data, error) == [ok |-> ok, data |-> data, error |-> None]

_make_response(ok, data, error) == [ok |-> ok, data |-> data, error |-> error]

\* what a method hands back: the returned dict and the _session_key it leaves
Ret(resp, key) == [resp |-> resp, key |-> key]

\* one subprocess.run call; env None means the child inherits os.environ
Launch(cmd, env, input, timeout) ==
    [cmd |-> cmd, env |-> env, input |-> input, timeout |-> timeout]
ChildEnv(l) == IF l.env.some THEN l.env.val ELSE environ

FlatpakBw == <<"flatpak", "run", "--command=bw", FLATPAK_APP>>

\* mutant: the child inherits os.environ, the stored key is not added
_run_bw_command_env_inherit == environ

\* env = os.environ.copy(); if self._session_key: env["BW_SESSION"] = ...
_run_bw_command_env ==
    IF Truthy(session_key)
    THEN [environ EXCEPT !.BW_SESSION = session_key]
    ELSE environ

_run_bw_command(args) ==
    Launch(FlatpakBw \o args, Some(_run_bw_command_env), None, TIMEOUT)

\* mutant: a raised exception also drops the stored session key
Except_clears(o, key) ==
    IF o.kind = "TimeoutExpired"
    THEN Ret(_make_response(FALSE, None, Some("COMMAND_FAILED")), None)
    ELSE Ret(_make_response(FALSE, None, Some("UNKNOWN_ERROR")), None)

\* the except clauses every method ends with
Except(o, key) ==
    IF o.kind = "TimeoutExpired"
    THEN Ret(_make_response(FALSE, None, Some("COMMAND_FAILED")), key)
    ELSE Ret(_make_response(FALSE, None, Some("UNKNOWN_ERROR")), key)

\* mutant: only stderr is searched
combined_stderr_only(o) == lower(o.stderr)

combined(o) == lower(o.stderr) \o lower(o.stdout)

check_flatpak_launch == Launch(<<"flatpak", "--version">>, None, None, TIMEOUT)
check_flatpak(o) ==
    IF o.kind = "exit" THEN
        IF o.returncode = 0
        THEN Ret(_make_response(TRUE, Some([version |-> strip(o.stdout)]), None),
                 session_key)
        ELSE Ret(_make_response(FALSE, None, Some("FLATPAK_MISSING")), session_key)
    ELSE IF o.kind = "FileNotFoundError"
    THEN Ret(_make_response(FALSE, None, Some("FLATPAK_MISSING")), session_key)
    ELSE Except(o, session_key)

check_bitwarden_launch ==
    Launch(<<"flatpak", "info", FLATPAK_APP>>, None, None, TIMEOUT)
check_bitwarden(o) ==
    IF o.kind = "exit" THEN
        IF o.returncode = 0
        THEN Ret(_make_response(TRUE, Some([installed |-> TRUE]), None), session_key)
        ELSE Ret(_make_response(FALSE, None, Some("BITWARDEN_MISSING")), session_key)
    ELSE IF o.kind = "FileNotFoundError"
    THEN Ret(_make_response(FALSE, None, Some("FLATPAK_MISSING")), session_key)
    ELSE Except(o, session_key)

status_launch == _run_bw_command(<<"status", "--raw">>)
\* mutant: stdout that is no JSON is passed over as success without data
status_lenient(o) ==
    IF o.kind = "exit" THEN
        IF o.returncode # 0
        THEN Ret(_make_response(FALSE, None, Some("COMMAND_FAILED")), session_key)
        ELSE LET status_data == json_loads(o.stdout) IN
             IF status_data.ok
             THEN Ret(_make_response(TRUE, Some(status_data.val), None), session_key)
             ELSE Ret(_make_response(TRUE, None, None), session_key)
    ELSE Except(o, session_key)

status(o) ==
    IF o.kind = "exit" THEN
        IF o.returncode # 0
        THEN Ret(_make_response(FALSE, None, Some("COMMAND_FAILED")), session_key)
        ELSE LET status_data == json_loads(o.stdout) IN
             IF status_data.ok
             THEN Ret(_make_response(TRUE, Some(status_data.val), None), session_key)
             ELSE Ret(_make_response(FALSE, None, Some("COMMAND_FAILED")), session_key)
    ELSE Except(o, session_key)

\* mutant: the password is handed over as a command-line argument
login_launch_argv(email, password) ==
    Launch(FlatpakBw \o <<"login", email, password, "--raw">>,
           Some([environ EXCEPT !.BW_PASSWORD = Some(password)]), None, TIMEOUT)

login_launch(email, password) ==
    Launch(FlatpakBw \o <<"login", email, "--passwordenv", "BW_PASSWORD", "--raw">>,
           Some([environ EXCEPT !.BW_PASSWORD = Some(password)]), None, TIMEOUT)
\* mutant: no branch for "already logged in"
login_no_already(o) ==
    IF o.kind = "exit" THEN
        IF o.returncode = 0
        THEN Ret(_make_response(TRUE, Some([logged_in |-> TRUE]), None), session_key)
        ELSE IF Contains(P_invalid, combined(o)) \/ Contains(P_incorrect, combined(o))
        THEN Ret(_make_response(FALSE, None, Some("INVALID_CREDENTIALS")), session_key)
        ELSE Ret(_make_response(FALSE, None, Some("COMMAND_FAILED")), session_key)
    ELSE Except(o, session_key)

login(o) ==
    IF o.kind = "exit" THEN
        IF o.returncode = 0
        THEN Ret(_make_response(TRUE, Some([logged_in |-> TRUE]), None), session_key)
        ELSE IF Contains(P_invalid, combined(o)) \/ Contains(P_incorrect, combined(o))
        THEN Ret(_make_response(FALSE, None, Some("INVALID_CREDENTIALS")), session_key)
        ELSE IF Contains(P_already_logged_in, combined(o))
        THEN Ret(_make_response(TRUE, Some([logged_in |-> TRUE, already |-> TRUE]), None),
                 session_key)
        ELSE Ret(_make_response(FALSE, None, Some("COMMAND_FAILED")), session_key)
    ELSE Except(o, session_key)

unlock_launch(master_password) ==
    Launch(FlatpakBw \o <<"unlock", "--passwordenv", "BW_PASSWORD", "--raw">>,
           Some([environ EXCEPT !.BW_PASSWORD = Some(master_password)]), None, TIMEOUT)
\* mutant: 'already unlocked' is looked for before 'not logged in'
unlock_already_first(o) ==
    IF o.kind = "exit" THEN
        IF o.returncode = 0
        THEN LET key == strip(o.stdout) IN
             IF key # <<>>
             THEN Ret(_make_response(TRUE,
                          Some([unlocked |-> TRUE, session_key |-> key]), None),
                      Some(key))
             ELSE Ret(_make_response(TRUE, Some([unlocked |-> TRUE]), None), session_key)
        ELSE IF Contains(P_invalid, combined(o)) \/ Contains(P_incorrect, combined(o))
        THEN Ret(_make_response(FALSE, None, Some("INVALID_CREDENTIALS")), session_key)
        ELSE IF Contains(P_already_unlocked, combined(o))
        THEN Ret(_make_response(TRUE, Some([unlocked |-> TRUE, already |-> TRUE]), None),
                 session_key)
        ELSE IF Contains(P_not_logged_in, combined(o))
        THEN Ret(_make_response(FALSE, None, Some("NOT_AUTHENTICATED")), session_key)
        ELSE Ret(_make_response(FALSE, None, Some("COMMAND_FAILED")), session_key)
    ELSE Except(o, session_key)

\* mutant: the stored key is the raw stdout, the returned one is trimmed
unlock_stores_raw(o) ==
    IF o.kind = "exit" THEN
        IF o.returncode = 0
        THEN LET key == strip(o.stdout) IN
             IF key # <<>>
             THEN Ret(_make_response(TRUE,
                          Some([unlocked |-> TRUE, session_key |-> key]), None),
                      Some(o.stdout))
             ELSE Ret(_make_response(TRUE, Some([unlocked |-> TRUE]), None), session_key)
        ELSE IF Contains(P_invalid, combined(o)) \/ Contains(P_incorrect, combined(o))
        THEN Ret(_make_response(FALSE, None, Some("INVALID_CREDENTIALS")), session_key)
        ELSE IF Contains(P_not_logged_in, combined(o))
        THEN Ret(_make_response(FALSE, None, Some("NOT_AUTHENTICATED")), session_key)
        ELSE IF Contains(P_already_unlocked, combined(o))
        THEN Ret(_make_response(TRUE, Some([unlocked |-> TRUE, already |-> TRUE]), None),
                 session_key)
        ELSE Ret(_make_response(FALSE, None, Some("COMMAND_FAILED")), session_key)
    ELSE Except(o, session_key)
\* mutant: an unlock that prints no token empties the store
unlock_clears_on_blank(o) ==
    IF o.kind = "exit" THEN
        IF o.returncode = 0
        THEN LET key == strip(o.stdout) IN
             IF key # <<>>
             THEN Ret(_make_response(TRUE,
                          Some([unlocked |-> TRUE, session_key |-> key]), None),
                      Some(key))
             ELSE Ret(_make_response(TRUE, Some([unlocked |-> TRUE]), None), None)
        ELSE IF Contains(P_invalid, combined(o)) \/ Contains(P_incorrect, combined(o))
        THEN Ret(_make_response(FALSE, None, Some("INVALID_CREDENTIALS")), session_key)
        ELSE IF Contains(P_not_logged_in, combined(o))
        THEN Ret(_make_response(FALSE, None, Some("NOT_AUTHENTICATED")), session_key)
        ELSE IF Contains(P_already_unlocked, combined(o))
        THEN Ret(_make_response(TRUE, Some([unlocked |-> TRUE, already |-> TRUE]), None),
                 session_key)
        ELSE Ret(_make_response(FALSE, None, Some("COMMAND_FAILED")), session_key)
    ELSE Except(o, session_key)

\* mutant: whatever an unlock that exits 0 prints is stored, nothing included
unlock_stores_blank(o) ==
    IF o.kind = "exit" THEN
        IF o.returncode = 0
        THEN LET key == strip(o.stdout) IN
             Ret(_make_response(TRUE,
                     Some([unlocked |-> TRUE, session_key |-> key]), None),
                 Some(key))
        ELSE IF Contains(P_invalid, combined(o)) \/ Contains(P_incorrect, combined(o))
        THEN Ret(_make_response(FALSE, None, Some("INVALID_CREDENTIALS")), session_key)
        ELSE IF Contains(P_not_logged_in, combined(o))
        THEN Ret(_make_response(FALSE, None, Some("NOT_AUTHENTICATED")), session_key)
        ELSE IF Contains(P_already_unlocked, combined(o))
        THEN Ret(_make_response(TRUE, Some([unlocked |-> TRUE, already |-> TRUE]), None),
                 session_key)
        ELSE Ret(_make_response(FALSE, None, Some("COMMAND_FAILED")), session_key)
    ELSE Except(o, session_key)

unlock(o) ==
    IF o.kind = "exit" THEN
        IF o.returncode = 0
        THEN LET key == strip(o.stdout) IN
             IF key # <<>>
             THEN Ret(_make_response(TRUE,
                          Some([unlocked |-> TRUE, session_key |-> key]), None),
                      Some(key))
             ELSE Ret(_make_response(TRUE, Some([unlocked |-> TRUE]), None), session_key)
        ELSE IF Contains(P_invalid, combined(o)) \/ Contains(P_incorrect, combined(o))
        THEN Ret(_make_response(FALSE, None, Some("INVALID_CREDENTIALS")), session_key)
        ELSE IF Contains(P_not_logged_in, combined(o))
        THEN Ret(_make_response(FALSE, None, Some("NOT_AUTHENTICATED")), session_key)
        ELSE IF Contains(P_already_unlocked, combined(o))
        THEN Ret(_make_response(TRUE, Some([unlocked |-> TRUE, already |-> TRUE]), None),
                 session_key)
        ELSE Ret(_make_response(FALSE, None, Some("COMMAND_FAILED")), session_key)
    ELSE Except(o, session_key)

lock_launch == _run_bw_command(<<"lock">>)
\* mutant: the return code test is inverted
lock_inverted(o) ==
    IF o.kind = "exit" THEN
        IF o.returncode # 0
        THEN Ret(_make_response(TRUE, Some([locked |-> TRUE]), None), None)
        ELSE Ret(_make_response(FALSE, None, Some("COMMAND_FAILED")), session_key)
    ELSE Except(o, session_key)

\* mutant: a successful lock keeps the stored session key
lock_keeps_session(o) ==
    IF o.kind = "exit" THEN
        IF o.returncode = 0
        THEN Ret(_make_response(TRUE, Some([locked |-> TRUE]), None), session_key)
        ELSE Ret(_make_response(FALSE, None, Some("COMMAND_FAILED")), session_key)
    ELSE Except(o, session_key)

lock(o) ==
    IF o.kind = "exit" THEN
        IF o.returncode = 0
        THEN Ret(_make_response(TRUE, Some([locked |-> TRUE]), None), None)
        ELSE Ret(_make_response(FALSE, None, Some("COMMAND_FAILED")), session_key)
    ELSE Except(o, session_key)

logout_launch == _run_bw_command(<<"logout">>)\* mutant: a logout that fails drops the stored session key all the same
logout_failure_clears(o) ==
    IF o.kind = "exit" THEN
        IF o.returncode = 0
        THEN Ret(_make_response(TRUE, Some([logged_out |-> TRUE]), None), None)
        ELSE IF Contains(P_not_logged_in, lower(o.stderr))
        THEN Ret(_make_response(TRUE, Some([logged_out |-> TRUE, already |-> TRUE]), None),
                 session_key)
        ELSE Ret(_make_response(FALSE, None, Some("COMMAND_FAILED")), None)
    ELSE Except(o, None)

\* mutant: a successful logout keeps the stored session key
logout_keeps_session(o) ==
    IF o.kind = "exit" THEN
        IF o.returncode = 0
        THEN Ret(_make_response(TRUE, Some([logged_out |-> TRUE]), None), session_key)
        ELSE IF Contains(P_not_logged_in, lower(o.stderr))
        THEN Ret(_make_response(TRUE, Some([logged_out |-> TRUE, already |-> TRUE]), None),
                 session_key)
        ELSE Ret(_make_response(FALSE, None, Some("COMMAND_FAILED")), session_key)
    ELSE Except(o, session_key)

logout(o) ==
    IF o.kind = "exit" THEN
        IF o.returncode = 0
        THEN Ret(_make_response(TRUE, Some([logged_out |-> TRUE]), None), None)
        ELSE IF Contains(P_not_logged_in, lower(o.stderr))
        THEN Ret(_make_response(TRUE, Some([logged_out |-> TRUE, already |-> TRUE]), None),
                 session_key)
        ELSE Ret(_make_response(FALSE, None, Some("COMMAND_FAILED")), session_key)
    ELSE Except(o, session_key)

list_items_launch == _run_bw_command(<<"list", "items", "--raw">>)
\* mutant: a locked vault is not told apart from any other failure
list_items_no_locked(o) ==
    IF o.kind = "exit" THEN
        IF o.returncode # 0
        THEN IF Contains(P_not_logged_in, lower(o.stderr))
             THEN Ret(_make_response(FALSE, None, Some("NOT_AUTHENTICATED")), session_key)
             ELSE Ret(_make_response(FALSE, None, Some("COMMAND_FAILED")), session_key)
        ELSE LET items == json_loads(o.stdout) IN
             IF items.ok
             THEN Ret(_make_response(TRUE, Some(items.val), None), session_key)
             ELSE Ret(_make_response(FALSE, None, Some("COMMAND_FAILED")), session_key)
    ELSE Except(o, session_key)

list_items(o) ==
    IF o.kind = "exit" THEN
        IF o.returncode # 0
        THEN IF Contains(P_locked, lower(o.stderr))
             THEN Ret(_make_response(FALSE, None, Some("LOCKED")), session_key)
             ELSE IF Contains(P_not_logged_in, lower(o.stderr))
             THEN Ret(_make_response(FALSE, None, Some("NOT_AUTHENTICATED")), session_key)
             ELSE Ret(_make_response(FALSE, None, Some("COMMAND_FAILED")), session_key)
        ELSE LET items == json_loads(o.stdout) IN
             IF items.ok
             THEN Ret(_make_response(TRUE, Some(items.val), None), session_key)
             ELSE Ret(_make_response(FALSE, None, Some("COMMAND_FAILED")), session_key)
    ELSE Except(o, session_key)

get_item_launch(item_id) == _run_bw_command(<<"get", "item", item_id, "--raw">>)
get_item(o) ==
    IF o.kind = "exit" THEN
        IF o.returncode # 0
        THEN IF Contains(P_locked, lower(o.stderr))
             THEN Ret(_make_response(FALSE, None, Some("LOCKED")), session_key)
             ELSE IF Contains(P_not_logged_in, lower(o.stderr))
             THEN Ret(_make_response(FALSE, None, Some("NOT_AUTHENTICATED")), session_key)
             ELSE IF Contains(P_not_found, lower(o.stderr))
             THEN Ret(_make_response(FALSE, None, Some("COMMAND_FAILED")), session_key)
             ELSE Ret(_make_response(FALSE, None, Some("COMMAND_FAILED")), session_key)
        ELSE LET item == json_loads(o.stdout) IN
             IF item.ok
             THEN Ret(_make_response(TRUE, Some(item.val), None), session_key)
             ELSE Ret(_make_response(FALSE, None, Some("COMMAND_FAILED")), session_key)
    ELSE Except(o, session_key)

get_totp_launch(item_id) == _run_bw_command(<<"get", "totp", item_id, "--raw">>)
get_totp(o) ==
    IF o.kind = "exit" THEN
        IF o.returncode # 0
        THEN IF Contains(P_locked, combined(o))
             THEN Ret(_make_response(FALSE, None, Some("LOCKED")), session_key)
             ELSE IF Contains(P_not_logged_in, combined(o))
             THEN Ret(_make_response(FALSE, None, Some("NOT_AUTHENTICATED")), session_key)
             ELSE IF Contains(P_no_totp, combined(o)) \/ Contains(P_not_found, combined(o))
             THEN Ret(_make_response(FALSE, None, Some("COMMAND_FAILED")), session_key)
             ELSE Ret(_make_response(FALSE, None, Some("COMMAND_FAILED")), session_key)
        ELSE Ret(_make_response(TRUE, Some([totp |-> strip(o.stdout)]), None), session_key)
    ELSE Except(o, session_key)

-----------------------------------------------------------------------------
(* Clipboard: copy_to_clipboard and its three helpers.  `avail` is the set  *)
(* of tools shutil.which finds, `outs[tool]` what running the tool comes to. *)

ClipTools == <<"wl-copy", "xclip", "xsel">>
ClipOutcomes == {Exit(0, <<>>, <<>>), Exit(1, <<>>, <<"error">>), TimeoutExpired}

\* no clipboard tool consulted
NoClipTools == [t \in {ClipTools[i] : i \in 1..3} |-> Raise("absent")]

\* a helper's answer: whether it copied, and the invocations it made
Tried(ok, ls) == [ok |-> ok, ls |-> ls]
Ran(l, o) == [cmd |-> l.cmd, env |-> l.env, input |-> l.input,
              timeout |-> l.timeout, out |-> o]

\* mutant: wl-copy is run without asking shutil.which first
_try_wl_copy_unchecked(text, avail, outs) ==
    LET l == Launch(<<"wl-copy", text>>, None, None, CLIP_TIMEOUT)
        o == outs["wl-copy"]
    IN Tried(o.kind = "exit" /\ o.returncode = 0, <<Ran(l, o)>>)

_try_wl_copy(text, avail, outs) ==
    IF "wl-copy" \notin avail THEN Tried(FALSE, <<>>)
    ELSE LET l == Launch(<<"wl-copy", text>>, None, None, CLIP_TIMEOUT)
             o == outs["wl-copy"]
         IN Tried(o.kind = "exit" /\ o.returncode = 0, <<Ran(l, o)>>)

_try_xclip(text, avail, outs) ==
    IF "xclip" \notin avail THEN Tried(FALSE, <<>>)
    ELSE LET l == Launch(<<"xclip", "-selection", "clipboard">>, None, Some(text),
                         CLIP_TIMEOUT)
             o == outs["xclip"]
         IN Tried(o.kind = "exit" /\ o.returncode = 0, <<Ran(l, o)>>)

\* mutant: xsel is run a second time when its first run fails
_try_xsel_twice(text, avail, outs) ==
    IF "xsel" \notin avail THEN Tried(FALSE, <<>>)
    ELSE LET l == Launch(<<"xsel", "--clipboard", "--input">>, None, Some(text),
                         CLIP_TIMEOUT)
             o == outs["xsel"]
         IN IF o.kind = "exit" /\ o.returncode = 0
            THEN Tried(TRUE, <<Ran(l, o)>>)
            ELSE Tried(FALSE, <<Ran(l, o), Ran(l, o)>>)

_try_xsel(text, avail, outs) ==
    IF "xsel" \notin avail THEN Tried(FALSE, <<>>)
    ELSE LET l == Launch(<<"xsel", "--clipboard", "--input">>, None, Some(text),
                         CLIP_TIMEOUT)
             o == outs["xsel"]
         IN Tried(o.kind = "exit" /\ o.returncode = 0, <<Ran(l, o)>>)

\* [resp, key, ls]: the returned dict, the session key left, the invocations
copy_to_clipboard(text, avail, outs) ==
    LET w == _try_wl_copy(text, avail, outs) IN
    IF w.ok
    THEN [resp |-> _make_response(TRUE, Some([copied |-> TRUE, method |-> "wl-copy"]), None),
          key |-> session_key, ls |-> w.ls]
    ELSE LET x == _try_xclip(text, avail, outs) IN
    IF x.ok
    THEN [resp |-> _make_response(TRUE, Some([copied |-> TRUE, method |-> "xclip"]), None),
          key |-> session_key, ls |-> w.ls \o x.ls]
    ELSE LET y == _try_xsel(text, avail, outs) IN
    IF y.ok
    THEN [resp |-> _make_response(TRUE, Some([copied |-> TRUE, method |-> "xsel"]), None),
          key |-> session_key, ls |-> w.ls \o x.ls \o y.ls]
    ELSE [resp |-> _make_response(FALSE, None, Some("CLIPBOARD_ERROR")),
          key |-> session_key, ls |-> w.ls \o x.ls \o y.ls]

-----------------------------------------------------------------------------
(* bitwarden_cli.py: the binary resolver and run_bw *)

PluginDirs == {"/plugins/bitwarden"}

\* os.path.join(_plugin_dir, "backend", "bin", "bw") and (.., "bin", "bw")
BundledPath(dir) ==
    CASE dir = "/plugins/bitwarden" -> "/plugins/bitwarden/backend/bin/bw"
      [] dir = "/plugins/dev" -> "/plugins/dev/backend/bin/bw"
      [] OTHER -> "backend/bin/bw"
LegacyPath(dir) ==
    CASE dir = "/plugins/bitwarden" -> "/plugins/bitwarden/bin/bw"
      [] dir = "/plugins/dev" -> "/plugins/dev/bin/bw"
      [] OTHER -> "bin/bw"

Paths == {BundledPath(d) : d \in PluginDirs} \cup {LegacyPath(d) : d \in PluginDirs}
\* a path holds nothing, a file that is not executable, an executable file,
\* or a directory (which os.access finds executable and os.path.isfile no file)
FileKinds == {"absent", "file", "exec", "dir"}

isfile(path) == path \in DOMAIN fs /\ fs[path] \in {"file", "exec"}
\* mutant: every path counts as executable
access_X_OK_any(path) == TRUE
access_X_OK(path) == path \in DOMAIN fs /\ fs[path] \in {"exec", "dir"}

\* mutant: a cached path is returned only while its file still qualifies
get_bw_path_revalidate ==
    IF bw_path_cache.some /\ isfile(bw_path_cache.val) /\ access_X_OK(bw_path_cache.val)
    THEN [path |-> bw_path_cache, cache |-> bw_path_cache, probes |-> <<>>]
    ELSE IF plugin_dir.some /\ plugin_dir.val # ""
    THEN LET bundled_path == BundledPath(plugin_dir.val)
             bundled_path_old == LegacyPath(plugin_dir.val)
         IN IF isfile(bundled_path) /\ access_X_OK(bundled_path)
            THEN [path |-> Some(bundled_path), cache |-> Some(bundled_path),
                  probes |-> <<bundled_path>>]
            ELSE IF isfile(bundled_path_old) /\ access_X_OK(bundled_path_old)
            THEN [path |-> Some(bundled_path_old), cache |-> Some(bundled_path_old),
                  probes |-> <<bundled_path, bundled_path_old>>]
            ELSE [path |-> None, cache |-> None,
                  probes |-> <<bundled_path, bundled_path_old>>]
    ELSE [path |-> None, cache |-> None, probes |-> <<>>]

\* mutant: BW_PATH of the environment is consulted first, as the docstring of
\* get_bw_path announces
get_bw_path_env ==
    IF bw_path_cache.some
    THEN [path |-> bw_path_cache, cache |-> bw_path_cache, probes |-> <<>>]
    ELSE IF environ.BW_PATH.some /\ isfile(environ.BW_PATH.val)
            /\ access_X_OK(environ.BW_PATH.val)
    THEN [path |-> environ.BW_PATH, cache |-> environ.BW_PATH,
          probes |-> <<environ.BW_PATH.val>>]
    ELSE IF plugin_dir.some /\ plugin_dir.val # ""
    THEN LET bundled_path == BundledPath(plugin_dir.val)
             bundled_path_old == LegacyPath(plugin_dir.val)
         IN IF isfile(bundled_path) /\ access_X_OK(bundled_path)
            THEN [path |-> Some(bundled_path), cache |-> Some(bundled_path),
                  probes |-> <<bundled_path>>]
            ELSE IF isfile(bundled_path_old) /\ access_X_OK(bundled_path_old)
            THEN [path |-> Some(bundled_path_old), cache |-> Some(bundled_path_old),
                  probes |-> <<bundled_path, bundled_path_old>>]
            ELSE [path |-> None, cache |-> bw_path_cache,
                  probes |-> <<bundled_path, bundled_path_old>>]
    ELSE [path |-> None, cache |-> bw_path_cache, probes |-> <<>>]

\* mutant: a search that finds nothing is cached too, as the empty path
get_bw_path_caches_miss ==
    IF bw_path_cache.some
    THEN [path |-> IF bw_path_cache.val = "" THEN None ELSE bw_path_cache,
          cache |-> bw_path_cache, probes |-> <<>>]
    ELSE IF plugin_dir.some /\ plugin_dir.val # ""
    THEN LET bundled_path == BundledPath(plugin_dir.val)
             bundled_path_old == LegacyPath(plugin_dir.val)
         IN IF isfile(bundled_path) /\ access_X_OK(bundled_path)
            THEN [path |-> Some(bundled_path), cache |-> Some(bundled_path),
                  probes |-> <<bundled_path>>]
            ELSE IF isfile(bundled_path_old) /\ access_X_OK(bundled_path_old)
            THEN [path |-> Some(bundled_path_old), cache |-> Some(bundled_path_old),
                  probes |-> <<bundled_path, bundled_path_old>>]
            ELSE [path |-> None, cache |-> Some(""),
                  probes |-> <<bundled_path, bundled_path_old>>]
    ELSE [path |-> None, cache |-> Some(""), probes |-> <<>>]

\* [path, cache, probes]: what get_bw_path returns, the _bw_path_cache it
\* leaves, and the paths it tested with os.path.isfile on the way
get_bw_path ==
    IF bw_path_cache.some
    THEN [path |-> bw_path_cache, cache |-> bw_path_cache, probes |-> <<>>]
    ELSE IF plugin_dir.some /\ plugin_dir.val # ""
    THEN LET bundled_path == BundledPath(plugin_dir.val)
             bundled_path_old == LegacyPath(plugin_dir.val)
         IN IF isfile(bundled_path) /\ access_X_OK(bundled_path)
            THEN [path |-> Some(bundled_path), cache |-> Some(bundled_path),
                  probes |-> <<bundled_path>>]
            ELSE IF isfile(bundled_path_old) /\ access_X_OK(bundled_path_old)
            THEN [path |-> Some(bundled_path_old), cache |-> Some(bundled_path_old),
                  probes |-> <<bundled_path, bundled_path_old>>]
            ELSE [path |-> None, cache |-> bw_path_cache,
                  probes |-> <<bundled_path, bundled_path_old>>]
    ELSE [path |-> None, cache |-> bw_path_cache, probes |-> <<>>]

\* mutant: the cache survives a change of plugin directory
init_plugin_dir_keeps_cache(dir) == [plugin_dir |-> Some(dir), cache |-> bw_path_cache]

\* [plugin_dir, cache]: the two globals as init_plugin_dir leaves them
init_plugin_dir(dir) == [plugin_dir |-> Some(dir), cache |-> None]

\* the _bw_path_cache clear_path_cache leaves
clear_path_cache == None

\* run_env = os.environ.copy(); if env: run_env.update(env)
\* an overlay names, per variable, Some(value) or None for "not in the overlay"
run_env(env) ==
    [k \in DOMAIN environ |-> IF env[k].some THEN env[k] ELSE environ[k]]

NoOverlay == [BW_SESSION |-> None, BW_PASSWORD |-> None]

StrOfException(o) ==
    CASE o.kind = "FileNotFoundError" -> <<"[Errno 2] No such file or directory">>
      [] o.kind = "PermissionError" -> <<"[Errno 13] Permission denied">>
      [] OTHER -> <<"error">>

ProcData(out, err, rc) == [stdout |-> out, stderr |-> err, returncode |-> rc]

\* [resp, ls, cache, path, probes]: the returned dict, the invocations made,
\* the cache left, and what its get_bw_path call returned and tested
run_bw(args, timeout, env, o) ==
    LET r == get_bw_path IN
    IF ~r.path.some
    THEN [resp |-> [ok |-> FALSE, error |-> Some("BW_BINARY_MISSING"),
                    data |-> Some([message |-> "Bitwarden CLI (bw) not found."])],
          ls |-> <<>>, cache |-> r.cache, path |-> r.path, probes |-> r.probes]
    ELSE LET l == Launch(<<r.path.val>> \o args, Some(run_env(env)), None, timeout)
             resp ==
                 IF o.kind = "exit" THEN
                     IF o.returncode = 0
                     THEN [ok |-> TRUE, error |-> None,
                           data |-> Some(ProcData(o.stdout, o.stderr, o.returncode))]
                     ELSE [ok |-> FALSE, error |-> Some("BW_COMMAND_FAILED"),
                           data |-> Some(ProcData(o.stdout, o.stderr, o.returncode))]
                 ELSE IF o.kind = "TimeoutExpired"
                 THEN [ok |-> FALSE, error |-> Some("BW_COMMAND_FAILED"),
                       data |-> Some(ProcData(<<>>, <<"Command timed out">>, -1))]
                 ELSE [ok |-> FALSE, error |-> Some("BW_COMMAND_FAILED"),
                       data |-> Some(ProcData(<<>>, StrOfException(o), -1))]
         IN [resp |-> resp, ls |-> <<Ran(l, o)>>, cache |-> r.cache, path |-> r.path,
             probes |-> r.probes]

-----------------------------------------------------------------------------
(* main.py: class Plugin, the methods the host UI calls.  Each takes the    *)
(* dict the BitwardenCLI method returned, logs, and hands the dict on; the  *)
(* log line is evaluated first and may raise.                               *)

Returns(result) == [kind |-> "return", val |-> result]
Raises(exc) == [kind |-> "raise", exc |-> exc]

\* log_info(f"Status: {result['data'].get('status', 'unknown')}")
Plugin_status(result) ==
    IF result.ok
    THEN IF result.data.val.t = "object" THEN Returns(result)
         ELSE Raises("AttributeError")
    ELSE Returns(result)

\* log_info(f"Listed {len(result['data'])} items")
Plugin_list_items(result) ==
    IF result.ok
    THEN IF result.data.val.t \in {"array", "object", "string"} THEN Returns(result)
         ELSE Raises("TypeError")
    ELSE Returns(result)

\* log_info(f"Copied via {result['data'].get('method', 'unknown')}"): the data
\* of a successful copy is the dict copy_to_clipboard builds
Plugin_copy_to_clipboard(result) == Returns(result)

\* login, unlock, logout, lock log a constant line; get_item and get_totp
\* return the dict as it is
Plugin(op, result) ==
    CASE op = "status" -> Plugin_status(result)
      [] op = "list_items" -> Plugin_list_items(result)
      [] op = "copy_to_clipboard" -> Plugin_copy_to_clipboard(result)
      [] OTHER -> Returns(result)

-----------------------------------------------------------------------------
(* Arguments the callers pass *)

VALID_EMAIL == "user@example.com"
VALID_PASSWORD == "correct_password"
VALID_MASTER_PASSWORD == "correct_master"
EnvToken == <<"sessEnv">>
ClipTexts == {"secret123!"}
BwArgs == {<<"status", "--raw">>}
Overlays == {NoOverlay, [BW_SESSION |-> Some(<<TokenNames[1]>>), BW_PASSWORD |-> None]}
\* the outcomes run_bw tells apart
RunnerOutcomes ==
    {Exit(0, MOCK_STATUS_LOCKED, <<>>), Exit(1, <<>>, M_not_logged_in),
     TimeoutExpired, FileNotFoundError, PermissionError}

-----------------------------------------------------------------------------
(* Callers on several threads.  A call of unlock or lock blocks in          *)
(* subprocess.run; the interpreter switches threads there and between any   *)
(* two statements, and the one statement that assigns self._session_key is  *)
(* a single attribute store.                                                *)

Threads == 1..NumThreads
Idle == [pc |-> "idle", op |-> "none", out |-> Raise("none")]
Running(op) == [pc |-> "running", op |-> op, out |-> Raise("none")]
Returned(op, o) == [pc |-> "returned", op |-> op, out |-> o]
NoStores == [last |-> None, returned |-> {}]

-----------------------------------------------------------------------------
(* The state machine *)

\* the trimmed text of s, defined by its first and last non-blank atoms
Trimmed(s) ==
    LET idx == {i \in 1..Len(s) : s[i] \notin Whitespace} IN
    IF idx = {} THEN <<>>
    ELSE SubSeq(s, CHOOSE i \in idx : \A j \in idx : i <= j,
                   CHOOSE i \in idx : \A j \in idx : i >= j)

\* bookkeeping of the last unlock that printed a token
Observe(name, o) ==
    IF name = "unlock" /\ o.kind = "exit" /\ o.returncode = 0 /\ Trimmed(o.stdout) # <<>>
    THEN Some(Trimmed(o.stdout))
    ELSE IF name \in {"unlock", "lock", "logout"} THEN None
    ELSE unlock_tok

\* bookkeeping of the token the client last issued and has not withdrawn: set
\* by an unlock that exits 0 printing a token, dropped by a lock or logout that
\* exits 0, left alone by every other call
LastUnlock(name, o) ==
    IF name = "unlock" /\ o.kind = "exit" /\ o.returncode = 0 /\ Trimmed(o.stdout) # <<>>
    THEN Some(Trimmed(o.stdout))
    ELSE IF name \in {"lock", "logout"} /\ o.kind = "exit" /\ o.returncode = 0
    THEN None
    ELSE last_unlock

\* bookkeeping of the get_bw_path() calls of the resolver's own callers:
\* "missed" once one has returned None, "recovered" when the call after that
\* returns a path, "no" otherwise and after init_plugin_dir or clear_path_cache
Missed(path) ==
    IF ~path.some THEN "missed"
    ELSE IF missed = "missed" THEN "recovered"
    ELSE "no"

\* a call of one method: what it launched and what it returned
Do(name, args, ls, resp, key) ==
    /\ call' = [op |-> name, args |-> args]
    /\ launches' = ls
    /\ response' = resp
    /\ session_before' = session_key
    /\ session_key' = key

\* mutant: a session-scoped method called with no stored key answers
\* NOT_AUTHENTICATED itself and launches nothing
Method_prevalidates(name, args, l, o, ret) ==
    /\ IF name \in {"list_items", "get_item", "get_totp"} /\ ~session_key.some
       THEN Do(name, args, <<>>,
               _make_response(FALSE, None, Some("NOT_AUTHENTICATED")), session_key)
       ELSE Do(name, args, <<Ran(l, o)>>, ret.resp, ret.key)
    /\ unlock_tok' = Observe(name, o)
    /\ last_unlock' = LastUnlock(name, o)
    /\ clip_tools' = NoClipTools

\* a facade method that makes one invocation l ending as o
Method(name, args, l, o, ret) ==
    /\ Do(name, args, <<Ran(l, o)>>, ret.resp, ret.key)
    /\ unlock_tok' = Observe(name, o)
    /\ last_unlock' = LastUnlock(name, o)
    /\ clip_tools' = NoClipTools

NoFiles == [p \in Paths |-> "absent"]
Bundled == [p \in Paths |-> IF p \in {BundledPath(d) : d \in PluginDirs}
                            THEN "exec" ELSE "absent"]

\* The process as it starts.  Two deployments: a checkout with no plugin
\* directory set and no binary, and an installed plugin whose directory was
\* set by Plugin._main, with the bundled binary and BW_SESSION exported.
Init ==
    /\ session_key = None
    /\ \/ /\ environ = [BW_SESSION |-> None, BW_PASSWORD |-> None]
          /\ plugin_dir = None
          /\ fs = NoFiles
       \/ /\ environ = [BW_SESSION |-> Some(EnvToken), BW_PASSWORD |-> None]
          /\ plugin_dir \in {Some(d) : d \in PluginDirs}
          /\ fs = Bundled
    /\ bw_path_cache = None
    /\ mock_state = "unauthenticated"
    /\ call = [op |-> "init", args |-> <<>>]
    /\ launches = <<>>
    /\ response = _make_response(TRUE, None, None)
    /\ session_before = None
    /\ unlock_tok = None
    /\ flow = 0
    /\ observed_before = None
    /\ clip_tools = NoClipTools
    /\ resolved = None
    /\ probes = <<>>
    /\ threads = [t \in Threads |-> Idle]
    /\ store_log = NoStores
    /\ last_unlock = None
    /\ missed = "no"

Rest == UNCHANGED <<environ, plugin_dir, bw_path_cache, fs, mock_state, flow,
                    observed_before, resolved, probes, threads, store_log, missed>>

CheckFlatpak ==
    \E o \in FlatpakOutcomes :
        Method("check_flatpak", <<>>, check_flatpak_launch, o, check_flatpak(o)) /\ Rest

CheckBitwarden ==
    \E o \in FlatpakOutcomes :
        Method("check_bitwarden", <<>>, check_bitwarden_launch, o, check_bitwarden(o))
            /\ Rest

Status ==
    \E o \in PlainOutcomes : Method("status", <<>>, status_launch, o, status(o)) /\ Rest

Login ==
    \E o \in PlainOutcomes :
        Method("login", <<VALID_EMAIL, VALID_PASSWORD>>,
               login_launch(VALID_EMAIL, VALID_PASSWORD), o, login(o)) /\ Rest

Unlock ==
    \E o \in Outcomes :
        Method("unlock", <<VALID_MASTER_PASSWORD>>,
               unlock_launch(VALID_MASTER_PASSWORD), o, unlock(o)) /\ Rest

Lock ==
    \E o \in PlainOutcomes : Method("lock", <<>>, lock_launch, o, lock(o)) /\ Rest

Logout ==
    \E o \in PlainOutcomes : Method("logout", <<>>, logout_launch, o, logout(o)) /\ Rest

ListItems ==
    \E o \in PlainOutcomes :
        Method("list_items", <<>>, list_items_launch, o, list_items(o)) /\ Rest

GetItem ==
    \E o \in PlainOutcomes :
        Method("get_item", <<"item-001">>, get_item_launch("item-001"), o, get_item(o))
            /\ Rest

GetTotp ==
    \E o \in Outcomes :
        Method("get_totp", <<"item-001">>, get_totp_launch("item-001"), o, get_totp(o))
            /\ Rest

\* shutil.which and the tools' runs: per tool, not installed or how it ends
CopyToClipboard ==
    \E text \in ClipTexts,
       tools \in [{ClipTools[i] : i \in 1..3} -> ClipOutcomes \cup {Raise("absent")}] :
        LET avail == {t \in DOMAIN tools : tools[t].kind # "absent"}
            r == copy_to_clipboard(text, avail, tools)
        IN /\ Do("copy_to_clipboard", <<text>>, r.ls, r.resp, r.key)
           /\ unlock_tok' = unlock_tok
           /\ last_unlock' = last_unlock
           /\ clip_tools' = tools
           /\ Rest

\* bitwarden_cli.run_bw(args, timeout, env)
RunBw ==
    \E args \in BwArgs, env \in Overlays, o \in RunnerOutcomes :
        LET r == run_bw(args, TIMEOUT, env, o) IN
        /\ Do("run_bw", args, r.ls, r.resp, session_key)
        /\ bw_path_cache' = r.cache
        /\ resolved' = r.path
        /\ probes' = r.probes
        /\ unlock_tok' = unlock_tok
        /\ last_unlock' = last_unlock
        /\ clip_tools' = NoClipTools
        /\ UNCHANGED <<environ, plugin_dir, fs, mock_state, flow, observed_before,
                       threads, store_log, missed>>

Next ==
    \/ CheckFlatpak
    \/ CheckBitwarden
    \/ Status
    \/ Login
    \/ Unlock
    \/ Lock
    \/ Logout
    \/ ListItems
    \/ GetItem
    \/ GetTotp
    \/ CopyToClipboard
    \/ RunBw

Spec == Init /\ [][Next]_vars

-----------------------------------------------------------------------------
(* tests/test_bitwarden_backend.py: class SubprocessMocker.  The vault of   *)
(* the mock is kept to two items, one with a one-time code and one without. *)

MockCompletedProcess(rc, out, err) == Exit(rc, out, err)
\* [proc, state]: the mocked result and the SubprocessMocker.state it leaves
Mocked(proc, st) == [proc |-> proc, state |-> st]

In(x, cmd) == \E i \in 1..Len(cmd) : cmd[i] = x
\* the arguments with an "@" in them
HasAt(arg) == arg \in {"user@example.com", "wrong@email.com"}
EnvGet(env, dflt) == IF env.some THEN env.val ELSE dflt

flatpak_installed == TRUE
bitwarden_installed == TRUE
MockItemIds == {"item-001", "item-002"}
MockItem(id) == IF id = "item-001" THEN ITEM_001 ELSE ITEM_002
MockHasTotp(id) == id = "item-001"

_handle_status ==
    CASE mock_state = "unauthenticated" ->
             Mocked(MockCompletedProcess(0, MOCK_STATUS_UNAUTHENTICATED, <<>>), mock_state)
      [] mock_state = "locked" ->
             Mocked(MockCompletedProcess(0, MOCK_STATUS_LOCKED, <<>>), mock_state)
      [] OTHER ->
             Mocked(MockCompletedProcess(0, MOCK_STATUS_UNLOCKED, <<>>), mock_state)

_handle_login(cmd, env) ==
    IF mock_state # "unauthenticated"
    THEN Mocked(MockCompletedProcess(1, <<>>, M_already_logged_in), mock_state)
    ELSE LET password == EnvGet(env.BW_PASSWORD, "")
             hits == {i \in 1..Len(cmd) : HasAt(cmd[i])}
             email == IF hits = {} THEN None
                      ELSE Some(cmd[CHOOSE i \in hits : \A j \in hits : i <= j])
         IN IF email = Some(VALID_EMAIL) /\ password = VALID_PASSWORD
            THEN Mocked(MockCompletedProcess(0, <<>>, <<>>), "locked")
            ELSE Mocked(MockCompletedProcess(1, <<>>, M_invalid_password), mock_state)

_handle_unlock(cmd, env) ==
    IF mock_state = "unauthenticated"
    THEN Mocked(MockCompletedProcess(1, <<>>, M_not_logged_in), mock_state)
    ELSE IF mock_state = "unlocked"
    THEN Mocked(MockCompletedProcess(0, MOCK_SESSION_KEY, <<>>), mock_state)
    ELSE IF EnvGet(env.BW_PASSWORD, "") = VALID_MASTER_PASSWORD
    THEN Mocked(MockCompletedProcess(0, MOCK_SESSION_KEY, <<>>), "unlocked")
    ELSE Mocked(MockCompletedProcess(1, <<>>, M_invalid_password), mock_state)

_handle_lock ==
    Mocked(MockCompletedProcess(0, M_lock_ok, <<>>),
           IF mock_state = "unlocked" THEN "locked" ELSE mock_state)

_handle_logout ==
    IF mock_state = "unauthenticated"
    THEN Mocked(MockCompletedProcess(1, <<>>, M_not_logged_in), mock_state)
    ELSE Mocked(MockCompletedProcess(0, M_logout_ok, <<>>), "unauthenticated")

_handle_list(cmd) ==
    IF mock_state = "unauthenticated"
    THEN Mocked(MockCompletedProcess(1, <<>>, M_not_logged_in), mock_state)
    ELSE IF mock_state = "locked"
    THEN Mocked(MockCompletedProcess(1, <<>>, M_vault_locked), mock_state)
    ELSE IF In("items", cmd)
    THEN Mocked(MockCompletedProcess(0, MOCK_VAULT_ITEMS, <<>>), mock_state)
    ELSE Mocked(MockCompletedProcess(1, <<>>, <<"Unknown", " ", "list type">>), mock_state)

_handle_get(cmd) ==
    LET item_id == IF cmd[Len(cmd)] = "--raw" THEN cmd[Len(cmd) - 1] ELSE cmd[Len(cmd)] IN
    IF mock_state = "unauthenticated"
    THEN Mocked(MockCompletedProcess(1, <<>>, M_not_logged_in), mock_state)
    ELSE IF mock_state = "locked"
    THEN Mocked(MockCompletedProcess(1, <<>>, M_vault_locked), mock_state)
    ELSE IF In("item", cmd)
    THEN IF item_id \in MockItemIds
         THEN Mocked(MockCompletedProcess(0, MockItem(item_id), <<>>), mock_state)
         ELSE Mocked(MockCompletedProcess(1, <<>>, M_not_found), mock_state)
    ELSE IF In("totp", cmd)
    THEN IF item_id \in MockItemIds
         THEN IF MockHasTotp(item_id)
              THEN Mocked(MockCompletedProcess(0, MOCK_TOTP_CODE, <<>>), mock_state)
              ELSE Mocked(MockCompletedProcess(1, <<>>, M_no_totp), mock_state)
         ELSE Mocked(MockCompletedProcess(1, <<>>, M_not_found), mock_state)
    ELSE Mocked(MockCompletedProcess(1, <<>>, <<"Unknown", " ", "get type">>), mock_state)

_handle_bw_command(cmd, env) ==
    LET bw_cmd == IF Len(cmd) >= 5 THEN cmd[5] ELSE "" IN
    CASE bw_cmd = "status" -> _handle_status
      [] bw_cmd = "login" -> _handle_login(cmd, env)
      [] bw_cmd = "unlock" -> _handle_unlock(cmd, env)
      [] bw_cmd = "lock" -> _handle_lock
      [] bw_cmd = "logout" -> _handle_logout
      [] bw_cmd = "list" -> _handle_list(cmd)
      [] bw_cmd = "get" -> _handle_get(cmd)
      [] OTHER -> Mocked(MockCompletedProcess(1, <<>>, M_unknown_command), mock_state)

_handle_clip(tool, clipboard_method) ==
    IF clipboard_method = tool
    THEN Mocked(MockCompletedProcess(0, <<>>, <<>>), mock_state)
    ELSE Mocked(MockCompletedProcess(1, <<>>, <<"error">>), mock_state)

\* a launch through the patched subprocess.run
mock_subprocess_run(l, clipboard_method) ==
    LET cmd == l.cmd
        env == ChildEnv(l)
    IN IF cmd = <<"flatpak", "--version">>
       THEN IF flatpak_installed
            THEN Mocked(MockCompletedProcess(0, <<"Flatpak 1.14.4">>, <<>>), mock_state)
            ELSE Mocked(MockCompletedProcess(1, <<>>, <<"command not found: flatpak">>),
                        mock_state)
       ELSE IF In("flatpak", cmd) /\ In("info", cmd)
       THEN IF ~flatpak_installed
            THEN Mocked(MockCompletedProcess(1, <<>>, <<"command not found: flatpak">>),
                        mock_state)
            ELSE IF bitwarden_installed
            THEN Mocked(MockCompletedProcess(0, <<"Bitwarden - 2024.1.0">>, <<>>), mock_state)
            ELSE Mocked(MockCompletedProcess(1, <<>>,
                            <<"error: com.bitwarden.desktop not installed">>), mock_state)
       ELSE IF In("flatpak", cmd) /\ In("--command=bw", cmd)
       THEN _handle_bw_command(cmd, env)
       ELSE IF cmd[1] \in {"wl-copy", "xclip", "xsel"}
       THEN _handle_clip(cmd[1], clipboard_method)
       ELSE Mocked(MockCompletedProcess(127, <<>>, <<"command not found">>), mock_state)

-----------------------------------------------------------------------------
(* The facade driven against the mock, as the tests do *)

LoginArgs ==
    {<<VALID_EMAIL, VALID_PASSWORD>>, <<VALID_EMAIL, "wrong_password">>,
     <<"wrong@email.com", "wrong_password">>}
MasterPasswords == {VALID_MASTER_PASSWORD, "wrong_master_password"}
ItemIds == {"item-001", "item-002", "non-existent-id"}
ClipboardMethods == {"wl-copy", "xclip", "xsel", "none"}

JString(x) == Some([t |-> "string", v |-> x])

\* the status a status() call made now would report
ObservedStatus ==
    LET m == mock_subprocess_run(status_launch, "none")
        r == status(m.proc)
    IN IF r.resp.ok THEN JGet(r.resp.data.val, "\"status\":") ELSE None

FlowSteps == <<"login", "unlock", "lock", "logout">>
FlowArgs == <<<<VALID_EMAIL, VALID_PASSWORD>>, <<VALID_MASTER_PASSWORD>>, <<>>, <<>>>>
ReadOnlyOps == {"status", "list_items", "get_item", "get_totp", "copy_to_clipboard",
                "check_flatpak", "check_bitwarden"}

\* how far the round trip login, unlock, lock, logout has come, started from
\* an observed status of unauthenticated; calls that only read do not end it
Flow(name, args) ==
    IF name \in ReadOnlyOps THEN flow
    ELSE IF flow \in 1..3 /\ name = FlowSteps[flow + 1] /\ args = FlowArgs[flow + 1]
    THEN flow + 1
    ELSE IF name = "login" /\ args = FlowArgs[1]
            /\ ObservedStatus = JString(<<"unauthenticated">>)
    THEN 1
    ELSE 0

MockRest == UNCHANGED <<environ, plugin_dir, bw_path_cache, fs, resolved, probes,
                        threads, store_log, missed>>

\* a facade method whose one invocation l is answered by the mock
MockMethod(name, args, l, m, ret) ==
    /\ Method(name, args, l, m.proc, ret)
    /\ mock_state' = m.state
    /\ flow' = Flow(name, args)
    /\ observed_before' = ObservedStatus
    /\ MockRest

MockCheckFlatpak ==
    LET m == mock_subprocess_run(check_flatpak_launch, "none") IN
    MockMethod("check_flatpak", <<>>, check_flatpak_launch, m, check_flatpak(m.proc))

MockCheckBitwarden ==
    LET m == mock_subprocess_run(check_bitwarden_launch, "none") IN
    MockMethod("check_bitwarden", <<>>, check_bitwarden_launch, m,
               check_bitwarden(m.proc))

MockStatus ==
    LET m == mock_subprocess_run(status_launch, "none") IN
    MockMethod("status", <<>>, status_launch, m, status(m.proc))

MockLogin ==
    \E a \in LoginArgs :
        LET l == login_launch(a[1], a[2])
            m == mock_subprocess_run(l, "none")
        IN MockMethod("login", a, l, m, login(m.proc))

MockUnlock ==
    \E pw \in MasterPasswords :
        LET l == unlock_launch(pw)
            m == mock_subprocess_run(l, "none")
        IN MockMethod("unlock", <<pw>>, l, m, unlock(m.proc))

MockLock ==
    LET m == mock_subprocess_run(lock_launch, "none") IN
    MockMethod("lock", <<>>, lock_launch, m, lock(m.proc))

MockLogout ==
    LET m == mock_subprocess_run(logout_launch, "none") IN
    MockMethod("logout", <<>>, logout_launch, m, logout(m.proc))

MockListItems ==
    LET m == mock_subprocess_run(list_items_launch, "none") IN
    MockMethod("list_items", <<>>, list_items_launch, m, list_items(m.proc))

MockGetItem ==
    \E id \in ItemIds :
        LET l == get_item_launch(id)
            m == mock_subprocess_run(l, "none")
        IN MockMethod("get_item", <<id>>, l, m, get_item(m.proc))

MockGetTotp ==
    \E id \in ItemIds :
        LET l == get_totp_launch(id)
            m == mock_subprocess_run(l, "none")
        IN MockMethod("get_totp", <<id>>, l, m, get_totp(m.proc))

\* the tests patch shutil.which with a list and set mocker.clipboard_method
MockCopyToClipboard ==
    \E text \in ClipTexts, avail \in SUBSET {ClipTools[i] : i \in 1..3},
       method \in ClipboardMethods :
        LET outs == [t \in {ClipTools[i] : i \in 1..3} |-> _handle_clip(t, method).proc]
            r == copy_to_clipboard(text, avail, outs)
        IN /\ Do("copy_to_clipboard", <<text>>, r.ls, r.resp, r.key)
           /\ unlock_tok' = unlock_tok
           /\ last_unlock' = last_unlock
           /\ flow' = Flow("copy_to_clipboard", <<text>>)
           /\ observed_before' = ObservedStatus
           /\ clip_tools' = [t \in DOMAIN outs |->
                                 IF t \in avail THEN outs[t] ELSE Raise("absent")]
           /\ UNCHANGED mock_state
           /\ MockRest

MockNext ==
    \/ MockCheckFlatpak
    \/ MockCheckBitwarden
    \/ MockStatus
    \/ MockLogin
    \/ MockUnlock
    \/ MockLock
    \/ MockLogout
    \/ MockListItems
    \/ MockGetItem
    \/ MockGetTotp
    \/ MockCopyToClipboard

MockSpec == Init /\ [][MockNext]_vars

-----------------------------------------------------------------------------
(* bitwarden_cli.py on its own: the resolver called again and again while   *)
(* the plugin directory, the files under it and the environment change.     *)

CliDirs == PluginDirs \cup {"/plugins/dev"}
Candidates == {BundledPath(d) : d \in CliDirs} \cup {LegacyPath(d) : d \in CliDirs}
\* a bw installed system-wide, on PATH
SystemBw == "/usr/bin/bw"
CliEnvirons ==
    {[BW_SESSION |-> None, BW_PASSWORD |-> None, BW_PATH |-> bp, PATH |-> path] :
        bp \in {None, Some(SystemBw)}, path \in {Some("/usr/bin")}}
        \cup {[BW_SESSION |-> None, BW_PASSWORD |-> None,
                BW_PATH |-> Some(LegacyPath("/plugins/bitwarden")), PATH |-> None]}

CliInit ==
    /\ session_key = None
    /\ environ \in CliEnvirons
    /\ plugin_dir = None
    /\ bw_path_cache = None
    /\ fs = [p \in Candidates \cup {SystemBw} |->
                 IF p = SystemBw THEN "exec" ELSE "absent"]
    /\ mock_state = "unauthenticated"
    /\ call = [op |-> "init", args |-> <<>>]
    /\ launches = <<>>
    /\ response = _make_response(TRUE, None, None)
    /\ session_before = None
    /\ unlock_tok = None
    /\ flow = 0
    /\ observed_before = None
    /\ clip_tools = NoClipTools
    /\ resolved = None
    /\ probes = <<>>
    /\ threads = [t \in Threads |-> Idle]
    /\ store_log = NoStores
    /\ last_unlock = None
    /\ missed = "no"

CliRest == UNCHANGED <<session_key, mock_state, launches, response, session_before,
                       unlock_tok, flow, observed_before, clip_tools, threads, store_log,
                       last_unlock>>

InitPluginDir ==
    \E dir \in CliDirs :
        /\ plugin_dir' = init_plugin_dir(dir).plugin_dir
        /\ bw_path_cache' = init_plugin_dir(dir).cache
        /\ call' = [op |-> "init_plugin_dir", args |-> <<dir>>]
        /\ missed' = "no"
        /\ UNCHANGED <<environ, fs, resolved, probes>>
        /\ CliRest

ClearPathCache ==
    /\ bw_path_cache' = clear_path_cache
    /\ call' = [op |-> "clear_path_cache", args |-> <<>>]
    /\ missed' = "no"
    /\ UNCHANGED <<environ, plugin_dir, fs, resolved, probes>>
    /\ CliRest

GetBwPath ==
    /\ bw_path_cache' = get_bw_path.cache
    /\ resolved' = get_bw_path.path
    /\ probes' = get_bw_path.probes
    /\ missed' = Missed(get_bw_path.path)
    /\ call' = [op |-> "get_bw_path", args |-> <<>>]
    /\ UNCHANGED <<environ, plugin_dir, fs>>
    /\ CliRest

\* a candidate file is installed, removed, or has its mode changed
FsChange ==
    \E p \in Candidates, k \in FileKinds :
        /\ fs[p] # k
        /\ fs' = [fs EXCEPT ![p] = k]
        /\ call' = [op |-> "fs", args |-> <<>>]
        /\ UNCHANGED <<environ, plugin_dir, bw_path_cache, resolved, probes, missed>>
        /\ CliRest

\* the process runs with another environment
SetEnv ==
    \E e \in CliEnvirons :
        /\ e # environ
        /\ environ' = e
        /\ call' = [op |-> "environ", args |-> <<>>]
        /\ UNCHANGED <<plugin_dir, bw_path_cache, fs, resolved, probes, missed>>
        /\ CliRest

CliNext ==
    \/ InitPluginDir
    \/ ClearPathCache
    \/ GetBwPath
    \/ FsChange
    \/ SetEnv

CliSpec == CliInit /\ [][CliNext]_vars

-----------------------------------------------------------------------------
(* The operations that classify a failure by the client's text, each run    *)
(* against every message of the client on stderr alone and on stdout alone. *)

TextMessages == ErrorMessages \cup {M_no_provider, M_two_step_invalid}

TextOutcomes ==
    {Exit(1, <<>>, m) : m \in TextMessages}
        \cup {Exit(1, m, <<>>) : m \in TextMessages}
        \cup {Exit(1, M_not_logged_in, M_invalid_password),
              Exit(1, M_already_unlocked, M_not_logged_in),
              Exit(1, M_invalid_password, M_already_unlocked)}
        \cup {Exit(0, MOCK_SESSION_KEY, <<>>), Exit(0, <<>>, <<>>)}

TextLogin ==
    \E o \in TextOutcomes :
        Method("login", <<VALID_EMAIL, VALID_PASSWORD>>,
               login_launch(VALID_EMAIL, VALID_PASSWORD), o, login(o)) /\ Rest

TextUnlock ==
    \E o \in TextOutcomes :
        Method("unlock", <<VALID_MASTER_PASSWORD>>,
               unlock_launch(VALID_MASTER_PASSWORD), o, unlock(o)) /\ Rest

TextLogout ==
    \E o \in TextOutcomes : Method("logout", <<>>, logout_launch, o, logout(o)) /\ Rest

TextListItems ==
    \E o \in TextOutcomes :
        Method("list_items", <<>>, list_items_launch, o, list_items(o)) /\ Rest

TextGetItem ==
    \E o \in TextOutcomes :
        Method("get_item", <<"item-001">>, get_item_launch("item-001"), o, get_item(o))
            /\ Rest

TextGetTotp ==
    \E o \in TextOutcomes :
        Method("get_totp", <<"item-002">>, get_totp_launch("item-002"), o, get_totp(o))
            /\ Rest

TextNext ==
    \/ TextLogin
    \/ TextUnlock
    \/ TextLogout
    \/ TextListItems
    \/ TextGetItem
    \/ TextGetTotp

TextSpec == Init /\ [][TextNext]_vars

-----------------------------------------------------------------------------
(* unlock and lock called concurrently on one BitwardenCLI instance *)

RaceOps == {"unlock", "lock"}
RaceOutcomes(op) ==
    IF op = "unlock"
    THEN {Exit(0, t, <<>>) : t \in Tokens}
             \cup {Exit(0, <<" ", TokenNames[1], "\n">>, <<>>),
                   Exit(1, <<>>, M_invalid_password)}
    ELSE {Exit(0, M_lock_ok, <<>>), TimeoutExpired}

\* the assignment to self._session_key a call makes once its subprocess.run
\* has returned: Some(value), or None when it makes none
Stored(op, o) ==
    IF op = "unlock"
    THEN IF o.kind = "exit" /\ o.returncode = 0 /\ strip(o.stdout) # <<>>
         THEN Some(Some(strip(o.stdout)))
         ELSE None
    ELSE IF o.kind = "exit" /\ o.returncode = 0 THEN Some(None) ELSE None

\* the token an unlock hands back in its payload
ReturnedTokens(resp) ==
    IF resp.ok /\ resp.data.some /\ "session_key" \in DOMAIN resp.data.val
    THEN {resp.data.val.session_key}
    ELSE {}

RaceRest == UNCHANGED <<environ, plugin_dir, bw_path_cache, fs, mock_state, call,
                        launches, response, session_before, unlock_tok, flow,
                        observed_before, clip_tools, resolved, probes, last_unlock,
                        missed>>

\* a thread enters unlock or lock and blocks in subprocess.run
RaceCall ==
    \E t \in Threads, op \in RaceOps :
        /\ threads[t].pc = "idle"
        /\ threads' = [threads EXCEPT ![t] = Running(op)]
        /\ UNCHANGED <<session_key, store_log>>
        /\ RaceRest

\* its subprocess.run returns
RaceExit ==
    \E t \in Threads :
        /\ threads[t].pc = "running"
        /\ \E o \in RaceOutcomes(threads[t].op) :
               threads' = [threads EXCEPT ![t] = Returned(threads[t].op, o)]
        /\ UNCHANGED <<session_key, store_log>>
        /\ RaceRest

\* the rest of the method: the assignment to self._session_key, if the
\* result calls for one, and the return
RaceReturn ==
    \E t \in Threads :
        /\ threads[t].pc = "returned"
        /\ LET op == threads[t].op
               o == threads[t].out
               ret == IF op = "unlock" THEN unlock(o) ELSE lock(o)
           IN /\ session_key' = ret.key
              /\ store_log' =
                     [last |-> IF Stored(op, o).some THEN Stored(op, o) ELSE store_log.last,
                      returned |-> store_log.returned \cup
                                     (IF op = "unlock" THEN ReturnedTokens(ret.resp) ELSE {})]
        /\ threads' = [threads EXCEPT ![t] = Idle]
        /\ RaceRest

RaceNext ==
    \/ RaceCall
    \/ RaceExit
    \/ RaceReturn

RaceSpec == Init /\ [][RaceNext]_vars

-----------------------------------------------------------------------------
(* Properties *)

VaultOps == {"status", "login", "unlock", "lock", "logout", "list_items",
             "get_item", "get_totp"}
SessionScopedOps == {"list_items", "get_item", "get_totp"}

\* the outcome of the one invocation a vault operation made
Proc == launches[1].out
Failed(kind) == response.ok = FALSE /\ response.error = Some(kind)

\* C1: for every public vault operation, if the Binary Resolver yields no
\* location the operation returns ok=false with BW_BINARY_MISSING and launches
\* no subprocess.
C1_BinaryMissingShortCircuits ==
    (call.op \in VaultOps /\ ~get_bw_path.path.some)
        => (Failed("BW_BINARY_MISSING") /\ launches = <<>>)

\* C2: after an unlock that exits 0 with non-empty trimmed stdout T the store
\* holds T, and until the next lock, logout or unlock every list items / get
\* item / get one-time code invocation is launched with BW_SESSION = T.
C2_UnlockTokenCarried ==
    unlock_tok.some =>
        /\ unlock_tok.val # <<>>
        /\ session_key = unlock_tok
        /\ call.op \in SessionScopedOps =>
               /\ Len(launches) = 1
               /\ ChildEnv(launches[1]).BW_SESSION = unlock_tok

C2_Witness ==
    /\ unlock_tok.some
    /\ call.op = "get_totp"
    /\ environ.BW_SESSION.some
    /\ environ.BW_SESSION # unlock_tok

\* the client exits nonzero with 'invalid' or 'incorrect' in its output
WrongCredentials(o) ==
    /\ o.kind = "exit"
    /\ o.returncode # 0
    /\ \E pat \in {P_invalid, P_incorrect} :
           Contains(pat, lower(o.stdout)) \/ Contains(pat, lower(o.stderr))

\* C3: a login with wrong credentials returns ok=false with
\* INVALID_CREDENTIALS and leaves the Session Store as it was.
C3_LoginInvalidCredentials ==
    (call.op = "login" /\ WrongCredentials(Proc))
        => (Failed("INVALID_CREDENTIALS") /\ session_key = session_before)

C3_Witness ==
    /\ call.op = "login"
    /\ WrongCredentials(Proc)
    /\ Proc.stderr = <<>>
    /\ session_before.some

ExpectedStatus ==
    <<<<"locked">>, <<"un", "locked">>, <<"locked">>, <<"unauthenticated">>>>

\* C4: from observed status unauthenticated, login(valid), unlock(correct
\* master password), lock, logout each return ok=true and move the status a
\* status call reports through locked, unlocked, locked, unauthenticated.
C4_StatusRoundTrip ==
    flow \in 1..4 =>
        /\ ObservedStatus = JString(ExpectedStatus[flow])
        /\ call.op \notin ReadOnlyOps =>
               (call.op = FlowSteps[flow] /\ response.ok = TRUE /\ response.error = None)
        /\ call.op = "status" =>
               /\ response.ok = TRUE
               /\ JGet(response.data.val, "\"status\":") = JString(ExpectedStatus[flow])

C4_Witness == flow = 4 /\ call.op = "status" /\ session_key = None

LoggedIn == {JString(<<"locked">>), JString(<<"un", "locked">>)}

\* C5: a login with valid credentials while the client is already logged in
\* (status locked or unlocked) returns ok=true with data.already=true and does
\* not change the observed status.
C5_LoginAlreadyLoggedIn ==
    (call.op = "login" /\ call.args = <<VALID_EMAIL, VALID_PASSWORD>>
        /\ observed_before \in LoggedIn)
    => /\ response.ok = TRUE
       /\ response.error = None
       /\ response.data = Some([logged_in |-> TRUE, already |-> TRUE])
       /\ ObservedStatus = observed_before

C5_Witness ==
    /\ call.op = "login"
    /\ call.args = <<VALID_EMAIL, VALID_PASSWORD>>
    /\ observed_before = JString(<<"un", "locked">>)
    /\ response.data = Some([logged_in |-> TRUE, already |-> TRUE])
    /\ session_key.some

\* C6: a lock whose invocation exits 0 leaves the Session Store empty; one
\* whose invocation exits nonzero returns ok=false with COMMAND_FAILED.
C6_Lock ==
    (call.op = "lock" /\ Proc.kind = "exit") =>
        /\ Proc.returncode = 0 => session_key = None
        /\ Proc.returncode # 0 => Failed("COMMAND_FAILED")

C6_Witness ==
    call.op = "lock" /\ Proc.kind = "exit" /\ Proc.returncode = 0 /\ session_before.some

\* the client reports 'not logged in'
ReportsNotLoggedIn(o) ==
    Contains(P_not_logged_in, lower(o.stdout)) \/ Contains(P_not_logged_in, lower(o.stderr))

\* C7: every logout that returns ok=true leaves the Session Store empty, the
\* 'not logged in' case with already=true included; any other nonzero exit
\* returns COMMAND_FAILED.
C7_LogoutClears ==
    call.op = "logout" =>
        /\ response.ok = TRUE => session_key = None
        /\ (Proc.kind = "exit" /\ Proc.returncode # 0 /\ ~ReportsNotLoggedIn(Proc))
               => Failed("COMMAND_FAILED")

\* C8: after a list items / get item / get one-time code call that returns
\* LOCKED or NOT_AUTHENTICATED, or an unlock that returns NOT_AUTHENTICATED,
\* the Session Store holds no credential.
C8_InvalidSessionCleared ==
    (\/ call.op \in SessionScopedOps
            /\ response.error \in {Some("LOCKED"), Some("NOT_AUTHENTICATED")}
     \/ call.op = "unlock" /\ response.error = Some("NOT_AUTHENTICATED"))
        => session_key = None

\* C9: the Session Store is changed only by a successful unlock, a successful
\* login that returns a token, lock and logout; status, list items, get item,
\* get one-time code, copy and the availability checks leave it unchanged.
C9_SessionFrame ==
    /\ call.op \in ReadOnlyOps => session_key = session_before
    /\ session_key # session_before =>
           \/ call.op = "unlock" /\ response.ok = TRUE
           \/ call.op = "login" /\ response.ok = TRUE
                  /\ "session_key" \in DOMAIN response.data.val
           \/ call.op \in {"lock", "logout"}

C9_Witness ==
    /\ call.op = "list_items"
    /\ response.error = Some("LOCKED")
    /\ session_before.some
    /\ session_key = session_before

\* C10: every result of a public operation or of the Command Runner has
\* ok=true and no error, or ok=false and an error kind; never both or neither.
C10_OkXorError ==
    call.op # "init" =>
        \/ response.ok = TRUE /\ response.error = None
        \/ response.ok = FALSE /\ response.error.some /\ response.error.val # ""

C10_Witness ==
    /\ call.op = "run_bw"
    /\ launches # <<>>
    /\ response.ok = FALSE

\* the kinds of the spec's error taxonomy
ErrorTaxonomy ==
    {"BW_BINARY_MISSING", "COMMAND_FAILED", "INVALID_CREDENTIALS", "NOT_AUTHENTICATED",
     "LOCKED", "TWO_FACTOR_REQUIRED", "INVALID_2FA_CODE", "CLIPBOARD_ERROR"}

\* C11: the error kind of every result returned to a caller, for every
\* operation and every subprocess outcome, is one of the eight kinds of the
\* error taxonomy.
C11_ErrorTaxonomy ==
    (call.op # "init" /\ response.error.some) => response.error.val \in ErrorTaxonomy

\* the operations of Plugin whose BitwardenCLI method is the one just called
PluginOps == VaultOps \cup {"copy_to_clipboard"}

\* C12: for every operation exposed to the host UI and every subprocess
\* outcome the call returns a structured result; none ends by raising.
C12_NoFaultEscapes ==
    call.op \in PluginOps =>
        /\ Plugin(call.op, response).kind = "return"
        /\ DOMAIN Plugin(call.op, response).val = {"ok", "data", "error"}

\* C13: a vault-client command that does not complete within its timeout
\* yields a failure outcome with exit code -1 and a synthetic timeout stderr,
\* and the operation that issued it returns ok=false with COMMAND_FAILED.
C13_TimeoutOutcome ==
    (call.op \in VaultOps \cup {"run_bw"} /\ launches # <<>>
         /\ Proc.kind = "TimeoutExpired") =>
        /\ Failed("COMMAND_FAILED")
        /\ call.op = "run_bw" =>
               /\ response.data.val.returncode = -1
               /\ response.data.val.stderr = <<"Command timed out">>
               /\ response.data.val.stdout = <<>>

\* C14: every public operation returns after a bounded number of subprocess
\* invocations, each bounded by an explicit timeout: one invocation for a
\* vault operation or an availability check, at most three for copy.
C14_BoundedInvocations ==
    /\ \A i \in 1..Len(launches) : launches[i].timeout \in {TIMEOUT, CLIP_TIMEOUT}
    /\ call.op \in VaultOps \cup {"check_flatpak", "check_bitwarden"} =>
           Len(launches) = 1
    /\ call.op = "copy_to_clipboard" => Len(launches) <= 3

C14_Witness ==
    /\ call.op = "copy_to_clipboard"
    /\ Len(launches) = 3
    /\ \A i \in 1..3 : launches[i].out.kind = "TimeoutExpired"
    /\ Failed("CLIPBOARD_ERROR")

\* C15: in every login and unlock invocation the password / master password
\* is in the child's environment (BW_PASSWORD) and is no element of the
\* command-line argument list.
C15_PasswordOnlyInEnv ==
    call.op \in {"login", "unlock"} =>
        LET pw == call.args[Len(call.args)] IN
        \A i \in 1..Len(launches) :
            /\ ~In(pw, launches[i].cmd)
            /\ launches[i].env.some
            /\ launches[i].env.val.BW_PASSWORD = Some(pw)

C15_Witness ==
    /\ call.op = "login"
    /\ response.ok = TRUE
    /\ launches[1].env.val.BW_PASSWORD = Some(VALID_PASSWORD)
    /\ In("--passwordenv", launches[1].cmd)

\* tool i of the fixed order is installed / exits zero when run
Installed(i) == clip_tools[ClipTools[i]].kind # "absent"
ExitsZero(i) ==
    clip_tools[ClipTools[i]].kind = "exit" /\ clip_tools[ClipTools[i]].returncode = 0
\* the tools the fixed order gets to: installed, and no earlier tool copied
Reached == {i \in 1..3 : Installed(i) /\ \A j \in 1..(i - 1) : ~(Installed(j) /\ ExitsZero(j))}
\* the commands that were invoked, in order
Invoked == [k \in 1..Len(launches) |-> launches[k].cmd[1]]

\* C20: copy tries wl-copy, xclip, xsel in that order: a tool that is not
\* installed is never invoked, a later tool only after every earlier one was
\* absent or failed, the method is the first tool that exited zero, no other
\* tool is invoked, and with none succeeding the result is CLIPBOARD_ERROR.
C20_ClipboardOrder ==
    call.op = "copy_to_clipboard" =>
        /\ Len(Invoked) = Cardinality(Reached)
        /\ \A k \in 1..Len(Invoked) :
               /\ \E i \in Reached : Invoked[k] = ClipTools[i]
               /\ \A m \in 1..(k - 1) :
                      \E i, j \in Reached : /\ i < j
                                            /\ Invoked[m] = ClipTools[i]
                                            /\ Invoked[k] = ClipTools[j]
        /\ (\E i \in Reached : ExitsZero(i)) =>
               /\ response.ok = TRUE
               /\ \E i \in Reached :
                      /\ ExitsZero(i)
                      /\ response.data.val.method = ClipTools[i]
        /\ ~(\E i \in Reached : ExitsZero(i)) => Failed("CLIPBOARD_ERROR")

C20_Witness ==
    /\ call.op = "copy_to_clipboard"
    /\ ~Installed(1)
    /\ Installed(2) /\ ~ExitsZero(2)
    /\ Installed(3) /\ ExitsZero(3)
    /\ Invoked = <<"xclip", "xsel">>
    /\ response.data.val.method = "xsel"

Resets == {"clear_path_cache", "init_plugin_dir"}
\* a candidate qualifies if it exists as a file and is executable
Qualifies(p) == p \in DOMAIN fs /\ fs[p] = "exec"
\* the location the search order yields for the plugin directory and files
FirstQualifying ==
    IF ~plugin_dir.some \/ plugin_dir.val = "" THEN None
    ELSE IF Qualifies(BundledPath(plugin_dir.val)) THEN Some(BundledPath(plugin_dir.val))
    ELSE IF Qualifies(LegacyPath(plugin_dir.val)) THEN Some(LegacyPath(plugin_dir.val))
    ELSE None

\* C16: once resolve has returned a location P, every later resolve returns
\* P without probing the filesystem, even if the file at P is deleted or a
\* higher-priority candidate appears, until a reset or a change of plugin
\* directory.
C16_CachedLocationSticks ==
    [][bw_path_cache.some =>
           \/ call'.op \in Resets
           \/ /\ bw_path_cache' = bw_path_cache
              /\ call'.op = "get_bw_path" =>
                     (resolved' = bw_path_cache /\ probes' = <<>>)]_vars

C16_Witness ==
    /\ call.op = "get_bw_path"
    /\ plugin_dir = Some("/plugins/bitwarden")
    /\ resolved = Some(LegacyPath("/plugins/bitwarden"))
    /\ probes = <<>>
    /\ fs[LegacyPath("/plugins/bitwarden")] = "absent"
    /\ fs[BundledPath("/plugins/bitwarden")] = "exec"

C19_ResetForcesReprobe ==
    [][/\ call'.op \in Resets => ~bw_path_cache'.some
       /\ (call.op \in Resets /\ call'.op = "get_bw_path") =>
              /\ resolved' = FirstQualifying
              /\ plugin_dir.some => probes' # <<>>
              /\ resolved'.some =>
                     resolved'.val \in {BundledPath(plugin_dir.val),
                                        LegacyPath(plugin_dir.val)}]_vars

C19_Witness ==
    /\ call.op = "get_bw_path"
    /\ plugin_dir = Some("/plugins/dev")
    /\ resolved = Some(BundledPath("/plugins/dev"))
    /\ probes = <<BundledPath("/plugins/dev")>>
    /\ fs[BundledPath("/plugins/bitwarden")] = "exec"

\* C21: for each of the three clipboard tools, when copy invokes it the text
\* is delivered on the tool's standard input and is no element of its
\* command-line argument list.
C21_TextOnStdin ==
    call.op = "copy_to_clipboard" =>
        \A i \in 1..Len(launches) :
            /\ launches[i].input = Some(call.args[1])
            /\ ~In(call.args[1], launches[i].cmd)

UnlockedStatus == JString(<<"un", "locked">>)
UnauthenticatedStatus == JString(<<"unauthenticated">>)
\* the call returned ok=true with data.already=true
Already ==
    /\ response.ok = TRUE
    /\ response.error = None
    /\ response.data.some
    /\ "already" \in DOMAIN response.data.val
    /\ response.data.val.already = TRUE

\* C22: an unlock issued when the vault is already unlocked, a login issued
\* when already logged in, and a logout issued when already logged out each
\* return ok=true with data.already=true.
C22_IdempotentAlready ==
    /\ (call.op = "unlock" /\ observed_before = UnlockedStatus) => Already
    /\ (call.op = "login" /\ observed_before \in LoggedIn) => Already
    /\ (call.op = "logout" /\ observed_before = UnauthenticatedStatus) => Already

\* stdout is a non-empty token that does not start with '{' or '['
BareToken(out) == Trimmed(out) # <<>> /\ Trimmed(out)[1] \notin {"{", "["}

\* C23: a login that exits 0 with a bare token on stdout stores the token in
\* the Session Store and returns it as data.session_key; with empty or JSON
\* stdout the Session Store is unchanged and the payload only signals logged
\* in.
C23_LoginStoresToken ==
    (call.op = "login" /\ Proc.kind = "exit" /\ Proc.returncode = 0) =>
        /\ response.ok = TRUE
        /\ response.data.some
        /\ response.data.val.logged_in = TRUE
        /\ IF BareToken(Proc.stdout)
           THEN /\ session_key = Some(Trimmed(Proc.stdout))
                /\ "session_key" \in DOMAIN response.data.val
                /\ response.data.val.session_key = Trimmed(Proc.stdout)
           ELSE /\ session_key = session_before
                /\ response.data.val = [logged_in |-> TRUE]

\* the texts of the vault client that announce a second factor
P_no_provider == <<"no", " ", "provider selected">>
P_two_step_invalid == <<"two-step", " ", "login code is", " ", "invalid">>
Providers == {<<0, "Authenticator">>, <<1, "Email">>, <<3, "YubiKey">>}
\* the client's output, lower-cased, in either order of the two streams
Says(pat, o) ==
    \/ Contains(pat, lower(o.stderr) \o lower(o.stdout))
    \/ Contains(pat, lower(o.stdout) \o lower(o.stderr))

\* C24: a failing login whose output contains 'no provider selected' returns
\* TWO_FACTOR_REQUIRED with the providers 0 Authenticator, 1 Email, 3 YubiKey,
\* and one whose output contains 'two-step login code is invalid' returns
\* INVALID_2FA_CODE.
C24_TwoFactor ==
    (call.op = "login" /\ Proc.kind = "exit" /\ Proc.returncode # 0) =>
        /\ Says(P_no_provider, Proc) =>
               /\ Failed("TWO_FACTOR_REQUIRED")
               /\ response.data.some
               /\ "providers" \in DOMAIN response.data.val
               /\ response.data.val.providers = Providers
        /\ Says(P_two_step_invalid, Proc) => Failed("INVALID_2FA_CODE")

LockedStatus == JString(<<"locked">>)

\* C25: in any state reached by login/unlock/lock/logout calls, list items,
\* get item and get one-time code return ok=true only when the observed
\* status is unlocked, LOCKED when it is locked and NOT_AUTHENTICATED when it
\* is unauthenticated; a get item for an unknown id in the unlocked state
\* returns COMMAND_FAILED.
C25_VaultOpsFollowStatus ==
    (call.op \in SessionScopedOps /\ observed_before.some) =>
        /\ response.ok = TRUE => observed_before = UnlockedStatus
        /\ observed_before = LockedStatus => Failed("LOCKED")
        /\ observed_before = UnauthenticatedStatus => Failed("NOT_AUTHENTICATED")
        /\ (call.op = "get_item" /\ call.args = <<"non-existent-id">>
                /\ observed_before = UnlockedStatus) => Failed("COMMAND_FAILED")

C25_Witness ==
    /\ call.op = "list_items"
    /\ observed_before = LockedStatus
    /\ Failed("LOCKED")
    /\ flow = 3

\* C26: get one-time code for an item without a one-time-code field (the
\* client exits nonzero with 'no totp' or 'not found' in its output) returns
\* ok=false with COMMAND_FAILED and a message payload in data; a success
\* returns the trimmed stdout as data.totp.
C26_TotpUnavailable ==
    (call.op = "get_totp" /\ Proc.kind = "exit") =>
        /\ (Proc.returncode # 0 /\ (Says(P_no_totp, Proc) \/ Says(P_not_found, Proc))) =>
               /\ Failed("COMMAND_FAILED")
               /\ response.data.some
        /\ Proc.returncode = 0 =>
               /\ response.ok = TRUE
               /\ response.data = Some([totp |-> Trimmed(Proc.stdout)])

\* C27: under any interleaving of concurrent unlock and lock calls on one
\* instance the Session Store holds no credential or exactly the token one
\* of the unlock invocations returned, and its value is that of the last
\* write.
C27_LastWriteWins ==
    /\ session_key.some => session_key.val \in store_log.returned
    /\ session_key = IF store_log.last.some THEN store_log.last.val ELSE None

C27_Witness ==
    /\ Cardinality(store_log.returned) >= 2
    /\ store_log.last = Some(None)
    /\ session_key = None
    /\ \E t, u \in Threads :
           /\ threads[t] = Returned("unlock", Exit(0, <<" ", TokenNames[1], "\n">>, <<>>))
           /\ threads[u].pc = "returned"
           /\ threads[u].op = "lock"

\* the operations that classify a failure by the client's text
TextOps == {"login", "unlock", "logout", "list_items", "get_item", "get_totp"}
\* what operation op returns when its one invocation ends as o
Classified(op, o) ==
    CASE op = "login" -> login(o).resp
      [] op = "unlock" -> unlock(o).resp
      [] op = "logout" -> logout(o).resp
      [] op = "list_items" -> list_items(o).resp
      [] op = "get_item" -> get_item(o).resp
      [] OTHER -> get_totp(o).resp

\* C28: login, unlock, logout, list items, get item and get one-time code
\* match their patterns against the lower-cased concatenation of stdout and
\* stderr: a text that appears only on stdout is classified as the same text
\* on stderr is.
C28_BothStreamsSearched ==
    (call.op \in TextOps /\ Proc.kind = "exit" /\ Proc.returncode # 0
         /\ Proc.stderr = <<>>)
        => response = Classified(call.op, Exit(Proc.returncode, <<>>, Proc.stdout))

\* C29: a nonzero-exit unlock is classified by first match in the order
\* 'invalid' or 'incorrect' (INVALID_CREDENTIALS), 'not logged in'
\* (NOT_AUTHENTICATED), 'already unlocked' (ok=true, already=true), else
\* COMMAND_FAILED; in all four cases the Session Store is left unchanged.
C29_UnlockClassification ==
    (call.op = "unlock" /\ Proc.kind = "exit" /\ Proc.returncode # 0) =>
        /\ session_key = session_before
        /\ IF Says(P_invalid, Proc) \/ Says(P_incorrect, Proc)
           THEN Failed("INVALID_CREDENTIALS")
           ELSE IF Says(P_not_logged_in, Proc)
           THEN Failed("NOT_AUTHENTICATED")
           ELSE IF Says(P_already_unlocked, Proc)
           THEN /\ Already
                /\ response.data.val = [unlocked |-> TRUE, already |-> TRUE]
           ELSE Failed("COMMAND_FAILED")

C29_Witness ==
    /\ call.op = "unlock"
    /\ Proc = Exit(1, M_already_unlocked, M_not_logged_in)
    /\ Failed("NOT_AUTHENTICATED")
    /\ session_before.some

\* C30: a status call whose invocation exits 0 with well-formed JSON returns
\* ok=true with the parsed stdout as data, unchanged; exit 0 with malformed
\* JSON, and any nonzero exit, return COMMAND_FAILED.  List items and get
\* item return COMMAND_FAILED on malformed JSON too.
C30_StatusJson ==
    /\ (call.op = "status" /\ Proc.kind = "exit") =>
           IF Proc.returncode = 0 /\ json_loads(Proc.stdout).ok
           THEN /\ response.ok = TRUE
                /\ response.error = None
                /\ response.data = Some(json_loads(Proc.stdout).val)
                /\ Proc.stdout = MOCK_STATUS_LOCKED =>
                       /\ JGet(response.data.val, "\"status\":") = LockedStatus
                       /\ JGet(response.data.val, "\"userEmail\":")
                              = JString(<<"user@example.com">>)
           ELSE Failed("COMMAND_FAILED")
    /\ (call.op \in {"list_items", "get_item"} /\ Proc.kind = "exit"
            /\ Proc.returncode = 0 /\ ~json_loads(Proc.stdout).ok)
           => Failed("COMMAND_FAILED")

C30_Witness ==
    /\ call.op = "status"
    /\ Proc = Exit(0, <<"{", "\"status\":">>, <<>>)
    /\ Failed("COMMAND_FAILED")
    /\ session_key.some


\* the password a login or unlock call hands to the client, if any
CallPassword ==
    IF call.op = "login" THEN Some(call.args[2])
    ELSE IF call.op = "unlock" THEN Some(call.args[1])
    ELSE environ.BW_PASSWORD

\* C31: every vault-client invocation made while the Session Store holds T
\* has BW_SESSION = T in the child's environment, whatever BW_SESSION the
\* process environment defines; with an empty store no session overlay is
\* added and the child's environment is the process environment plus the
\* call's own overlay.
C31_StoreOverlaysSession ==
    call.op \in VaultOps =>
        LET env == ChildEnv(launches[1]) IN
        IF session_before.some
        THEN env.BW_SESSION = session_before
        ELSE /\ env.BW_SESSION = environ.BW_SESSION
             /\ env.BW_PASSWORD = CallPassword


\* the client subcommand each facade method runs
Subcommand ==
    [status |-> "status", login |-> "login", unlock |-> "unlock", lock |-> "lock",
     logout |-> "logout", list_items |-> "list", get_item |-> "get", get_totp |-> "get"]

\* C32: the facade never pre-validates state: every call of status, login,
\* unlock, lock, logout, list items, get item or get one-time code launches
\* exactly one vault-client invocation, its own subcommand, whatever the
\* Session Store holds and whatever earlier calls returned, and never retries.
C32_OneLaunchPerCall ==
    call.op \in VaultOps =>
        /\ Len(launches) = 1
        /\ SubSeq(launches[1].cmd, 1, 4) = FlatpakBw
        /\ launches[1].cmd[5] = Subcommand[call.op]

C32_Witness ==
    /\ call.op = "list_items"
    /\ ~session_before.some
    /\ ~environ.BW_SESSION.some
    /\ Len(launches) = 1
    /\ Proc.kind = "TimeoutExpired"


\* an unlock that exits 0 printing nothing, or nothing but whitespace
BlankUnlock ==
    /\ call.op = "unlock"
    /\ Proc.kind = "exit"
    /\ Proc.returncode = 0
    /\ Trimmed(Proc.stdout) = <<>>
\* the returned payload has a session_key
HasSessionKey == response.data.some /\ "session_key" \in DOMAIN response.data.val

\* C33: an unlock that exits 0 with empty or whitespace-only stdout returns
\* ok=true with unlocked=true and no session_key and leaves the stored
\* credential as it was; an unlock's payload has a session_key exactly when
\* the store was written, and then the two values are equal.
C33_BlankUnlockKeepsStore ==
    call.op = "unlock" =>
        /\ BlankUnlock =>
               /\ response = _make_response(TRUE, Some([unlocked |-> TRUE]), None)
               /\ session_key = session_before
        /\ HasSessionKey => session_key = Some(response.data.val.session_key)
        /\ ~HasSessionKey => session_key = session_before

C33_Witness ==
    /\ BlankUnlock
    /\ Proc.stdout # <<>>
    /\ session_before.some
    /\ session_key = session_before

\* C34: any public operation that returns ok=false, a timeout or launch
\* failure of lock, logout or unlock included, leaves the Session Store
\* exactly as it was before the call.
C34_FailureKeepsStore ==
    (call.op # "init" /\ response.ok = FALSE) => session_key = session_before

C34_Witness ==
    /\ call.op = "logout"
    /\ Proc.kind \notin {"exit", "TimeoutExpired"}
    /\ Failed("UNKNOWN_ERROR")
    /\ session_before.some
    /\ session_key = session_before

\* C35: in every reachable state the Session Store is empty or holds the
\* non-empty trimmed stdout of the most recent zero-exit unlock that printed
\* a token and was not followed by a zero-exit lock or logout; it never holds
\* an empty string or a value the vault client did not produce.
C35_StoreHoldsLastToken ==
    /\ session_key = last_unlock
    /\ session_key.some => session_key.val # <<>>

C35_Witness ==
    /\ call.op = "lock"
    /\ Proc.kind = "exit"
    /\ Proc.returncode # 0
    /\ session_key.some
    /\ last_unlock = session_key


\* C36: for sequential calls on one instance against a client that behaves
\* like the tests' mock (its state changed only through this instance, no
\* timeouts), after every call: if the Session Store holds a credential, the
\* client's status is unlocked.
C36_StoredMeansUnlocked ==
    session_key.some => ObservedStatus = UnlockedStatus

C36_Witness ==
    /\ call.op = "unlock"
    /\ session_before.some
    /\ session_key.some
    /\ ObservedStatus = UnlockedStatus


\* C37: an absent resolution is not cached: if resolve returns absent and a
\* qualifying binary is then installed at a candidate path, the next resolve
\* returns that path without any reset, and a Command Runner call made after
\* that no longer returns BW_BINARY_MISSING.
C37_AbsentNotCached ==
    (call.op = "get_bw_path" /\ missed # "no") =>
        /\ resolved = FirstQualifying
        /\ resolved.some =>
               /\ missed = "recovered"
               /\ \A args \in BwArgs, o \in RunnerOutcomes :
                      LET r == run_bw(args, TIMEOUT, [k \in DOMAIN environ |-> None], o) IN
                      /\ r.path = resolved
                      /\ r.resp.error # Some("BW_BINARY_MISSING")
                      /\ Len(r.ls) = 1

C37_Witness ==
    /\ call.op = "get_bw_path"
    /\ missed = "recovered"
    /\ plugin_dir = Some("/plugins/bitwarden")
    /\ resolved = Some(LegacyPath("/plugins/bitwarden"))
    /\ probes = <<BundledPath("/plugins/bitwarden"), LegacyPath("/plugins/bitwarden")>>

====
